---- MODULE Spec2Model ----
(***************************************************************************)
(* A model of the DewyKB documentation site repository: the "Site" CI      *)
(* workflow (triggers, jobs, steps, concurrency group), the site           *)
(* configuration object, the redirect table, the OpenAPI document, the     *)
(* footer theme wrapper and the blog front matter; and of what the site    *)
(* documents: the documents of the Dewy service and their ingestion,       *)
(* retrieval, and the example clients of the tutorials (the Python and     *)
(* LangChain.js CLIs, the Generative-UI chatbot and its chat page, the     *)
(* NextJS application).                                                    *)
(***************************************************************************)
EXTENDS Integers, Sequences, FiniteSets, TLC

VARIABLES
    \* the Site workflow
    runs,       \* the workflow runs started so far, in order of creation
    event,      \* the last repository event delivered to the workflow
    deployed,   \* the commit whose build is published on the pages host
    \* the site generator (yarn gen-api-docs, yarn build) and the built site
    phase,      \* where the generator is: config, apidocs, blog, markdown,
                \* links, then built or failed
    idx,        \* position in the list the current phase works through
    config,     \* the configuration object, as evaluated so far
    apiDocs,    \* the API reference pages generated so far
    blogMeta,   \* the metadata of the blog posts loaded so far
    content,    \* the defects of the content being built
    log,        \* what the generator has reported
    start,      \* the path a visitor of the built site asked for
    location,   \* the path the visitor is at
    hops,       \* the redirects the visitor has followed
    rendered,   \* the footer as rendered for the visitor
    \* a client of the knowledge-base API validating a chunk it received
    chunk,      \* the JSON object received
    verdict,    \* the outcome of validating it against the response schema
    \* the Dewy service's documents and the add_file command of the CLI
    documents,  \* the documents of the knowledge base; a document's id is
                \* its position
    addFile,    \* the add_file command: where it is, its argument, the
                \* document add_document returned
    calls,      \* the API calls the running add_file command has made
    \* collections and retrieval (addCollection, retrieveChunks)
    index,      \* the embeddings of the collection's chunks, each with its
                \* similarity to the query
    collections,\* the collections created, with their configuration
    request,    \* the retrieveChunks request as the service reads it
    response,   \* the response to it
    \* the Generative-UI chatbot (app/action.tsx, app/productSearch.tsx)
    aiState,    \* the AI state: the message history
    chat,       \* where the handling of the user's message is
    completions,\* the chat completion requests issued, each with the AI
                \* state at the moment it was issued
    \* the chat page of the Generative-UI chatbot (app/page.tsx)
    uiState,    \* the UI state: the messages the page shows
    inputValue, \* the text of the input field
    submissions,\* the form submissions so far: what was submitted, the
                \* messages of the render the handler closed over, and
                \* whether submitUserMessage has returned
    \* the NextJS example (app/api/documents/route.ts, app/api/chat)
    handler,    \* the route handler at work: its request, its bindings,
                \* where it is
    outbound,   \* the calls the handler has made to Dewy and OpenAI
    served,     \* how the requests handled so far ended
    \* the LangChain.js CLI (index.ts, commands/load.ts, commands/query.ts)
    program,    \* the commander program: the command line it parsed and
                \* the options object it hands to the action
    dewy,       \* the configuration the Dewy client was constructed with
    sent,       \* the request the command sent to Dewy
    reply,      \* how the call the command awaits has settled
    console,    \* the lines the command has written to stdout and stderr
    promise     \* the promise the command's action returned

ciVars == <<runs, event, deployed>>

siteVars == <<phase, idx, config, apiDocs, blogMeta, content, log,
              start, location, hops, rendered>>

apiVars == <<chunk, verdict>>

loadVars == <<documents, addFile, calls>>

retrVars == <<index, collections, request, response>>

chatVars == <<aiState, chat, completions>>

pageVars == <<uiState, inputValue, submissions>>

nextVars == <<handler, outbound, served>>

cliVars == <<program, dewy, sent, reply, console, promise>>

restVars == <<loadVars, retrVars, chatVars, pageVars, nextVars, cliVars>>

nonCiVars == <<siteVars, apiVars, restVars>>

nonSiteVars == <<ciVars, apiVars, restVars>>

nonApiVars == <<ciVars, siteVars, restVars>>

nonLoadVars ==
    <<ciVars, siteVars, apiVars, retrVars, chatVars, pageVars,
      nextVars, cliVars>>

nonRetrVars ==
    <<ciVars, siteVars, apiVars, loadVars, chatVars, pageVars,
      nextVars, cliVars>>

nonChatVars ==
    <<ciVars, siteVars, apiVars, loadVars, retrVars, pageVars,
      nextVars, cliVars>>

nonCliVars ==
    <<ciVars, siteVars, apiVars, loadVars, retrVars, chatVars, pageVars,
      nextVars>>

nonPageVars ==
    <<ciVars, siteVars, apiVars, loadVars, retrVars, chatVars, nextVars,
      cliVars>>

nonNextVars ==
    <<ciVars, siteVars, apiVars, loadVars, retrVars, chatVars, pageVars,
      cliVars>>

vars == <<ciVars, siteVars, apiVars, restVars>>

(***************************************************************************)
(* Bounds of the model.                                                    *)
(***************************************************************************)
MaxRuns == 2

\* Documents created, and content versions a document is given.
MaxDocs == 2

MaxUploads == 2

\* Embeddings in the index, and the largest similarity score.
MaxEmbeddings == 3

MaxScore == 2

\* Messages a user submits to the chatbot in one conversation.
MaxTurns == 2

\* Requests the NextJS application serves.
MaxRequests == 2

\* Chunks of the answer the query command streams to stdout.
MaxChunks == 2

\* Forms submitted on the chat page.
MaxSubmissions == 2

(***************************************************************************)
(* The Site workflow (.github/workflows): on, concurrency, jobs.           *)
(***************************************************************************)
WorkflowName == "Site"

Branches == {"main", "dev"}

\* The files a change may touch; a change touches any subset of them.
\* A path is the sequence of its segments.
ChangedPaths == {<<"docs", "intro.md">>, <<"blog", "post", "index.mdx">>}

\* Pull requests of the repository: number and base branch.
PullRequests == {[num |-> 1, base |-> "main"], [num |-> 2, base |-> "dev"]}

\* Activity types of the pull_request event that the model delivers.
PullRequestActions == {"opened", "synchronize", "reopened", "closed"}

\* on.push.branches / on.push.paths / on.pull_request.paths
\* (patterns are sequences of segments, like the names they are matched with)
OnPushBranches == {<<"main">>}

OnPushPathsDocsOnly == {<<"docs", "**">>}

OnPushPaths == {<<"**">>}

OnPullRequestPaths == {<<"**">>}

\* on.pull_request has no `types`, so the default activity types apply.
OnPullRequestTypes == {"opened", "synchronize", "reopened"}

\* A filter pattern against a branch name or a path, segment by segment:
\* '**' matches any number of segments, '*' one segment, a name itself.
RECURSIVE GlobMatch(_, _)
GlobMatch(pattern, name) ==
    IF pattern = <<>> THEN name = <<>>
    ELSE IF Head(pattern) = "**"
    THEN \E k \in 0..Len(name) :
            GlobMatch(Tail(pattern), SubSeq(name, k + 1, Len(name)))
    ELSE /\ name # <<>>
         /\ Head(pattern) \in {"*", Head(name)}
         /\ GlobMatch(Tail(pattern), Tail(name))

BranchRef(b) == IF b = "main" THEN "refs/heads/main" ELSE "refs/heads/dev"

PullRef(n) == IF n = 1 THEN "refs/pull/1/merge" ELSE "refs/pull/2/merge"

\* github.ref of the run an event starts.
EventRef(e) == IF e.kind = "push" THEN BranchRef(e.branch) ELSE PullRef(e.pr)

\* Whether the `on` section starts a run for event e.
Triggers(e) ==
    IF e.kind = "push"
    THEN /\ \E b \in OnPushBranches : GlobMatch(b, <<e.branch>>)
         /\ \E p \in e.paths : \E pat \in OnPushPaths : GlobMatch(pat, p)
    ELSE /\ e.action \in OnPullRequestTypes
         /\ ~e.conflict
         /\ \E p \in e.paths : \E pat \in OnPullRequestPaths : GlobMatch(pat, p)

\* jobs, in the order the file declares them, and the steps of each.
Jobs == {"build", "deploy"}

JobSteps(j) ==
    IF j = "build"
    THEN <<"checkout", "setup-node", "Install dependencies",
           "Generate OpenAPI Docs", "Build website", "Upload docs">>
    ELSE <<"Deploy to GitHub Pages">>

Steps == {"checkout", "setup-node", "Install dependencies",
          "Generate OpenAPI Docs", "Build website", "Upload docs",
          "Deploy to GitHub Pages"}

\* jobs.<job>.needs
JobNeedsNone(j) == {}

JobNeeds(j) == IF j = "deploy" THEN {"build"} ELSE {}

\* jobs.<job>.if
JobIfAlways(j, run) == TRUE

JobIf(j, run) ==
    IF j = "deploy"
    THEN run.event = "push" /\ run.ref = "refs/heads/main"
    ELSE TRUE

\* concurrency.group: ${{ github.workflow }}-${{ github.ref }}
GroupOfWorkflow(run) == <<WorkflowName>>

Group(run) == <<WorkflowName, run.ref>>

CancelInProgressOff == FALSE

\* concurrency.cancel-in-progress
CancelInProgress == TRUE

JobDone == {"success", "failure", "skipped", "cancelled"}

RunDone(run) == \A j \in Jobs : run.job[j] \in JobDone

NewRun(e, n) ==
    [event |-> e.kind,
     ref   |-> EventRef(e),
     base  |-> e.branch,
     sha   |-> n,
     job   |-> [j \in Jobs |-> "queued"],
     step  |-> [s \in Steps |-> "pending"]]

\* A run after cancellation: an unfinished job is cancelled, its running step
\* is cancelled and the steps that had not started are skipped.
Cancelled(run) ==
    [run EXCEPT
       !.job  = [j \in Jobs |->
                   IF run.job[j] \in JobDone THEN run.job[j] ELSE "cancelled"],
       !.step = [s \in Steps |->
                   IF run.step[s] = "running" THEN "cancelled"
                   ELSE IF run.step[s] = "pending" THEN "skipped"
                   ELSE run.step[s]]]

\* Starting a run in a concurrency group cancels the group's runs in progress.
CancelGroup(rs, new) ==
    [i \in DOMAIN rs |->
       IF CancelInProgress /\ Group(rs[i]) = Group(new) /\ ~RunDone(rs[i])
       THEN Cancelled(rs[i]) ELSE rs[i]]

\* The runs of new's group whose deploy step is running: cancelling one of
\* them may come after its deployment was already published.
DeployingInGroup(new) ==
    {i \in DOMAIN runs :
        /\ CancelInProgress /\ Group(runs[i]) = Group(new)
        /\ runs[i].step["Deploy to GitHub Pages"] = "running"}

\* Delivery of event e: the `on` section decides whether a run starts.
RunsAfter(e) ==
    IF Triggers(e)
    THEN LET new == NewRun(e, Len(runs) + 1) IN Append(CancelGroup(runs, new), new)
    ELSE runs

EventAfter(e) == [e EXCEPT !.run = IF Triggers(e) THEN Len(runs) + 1 ELSE 0]

DeployedAfter(e) ==
    IF Triggers(e)
    THEN {deployed} \cup
         {runs[i].sha : i \in DeployingInGroup(NewRun(e, Len(runs) + 1))}
    ELSE {deployed}

\* The model delivers no event that would start a run beyond MaxRuns.
CanDeliver(e) == Triggers(e) => Len(runs) < MaxRuns

PushEvent(b, ps) ==
    [kind |-> "push", branch |-> b, pr |-> 0, action |-> "push",
     conflict |-> FALSE, paths |-> ps, run |-> 0]

PullRequestEvent(pr, a, c, ps) ==
    [kind |-> "pull_request", branch |-> pr.base, pr |-> pr.num,
     action |-> a, conflict |-> c, paths |-> ps, run |-> 0]

\* A commit that touches one documentation page is pushed to a branch.
Push ==
    \E b \in Branches :
        LET e == PushEvent(b, {<<"docs", "intro.md">>}) IN
        /\ CanDeliver(e)
        /\ runs' = RunsAfter(e)
        /\ event' = EventAfter(e)
        /\ deployed' \in DeployedAfter(e)
        /\ UNCHANGED nonCiVars

\* A mergeable pull request gets new commits.
PullRequest ==
    \E pr \in PullRequests :
        LET e == PullRequestEvent(pr, "synchronize", FALSE, {<<"docs", "intro.md">>}) IN
        /\ CanDeliver(e)
        /\ runs' = RunsAfter(e)
        /\ event' = EventAfter(e)
        /\ deployed' \in DeployedAfter(e)
        /\ UNCHANGED nonCiVars

\* Any push: any branch, any set of changed files.
PushAny ==
    \E b \in Branches, ps \in SUBSET ChangedPaths :
        LET e == PushEvent(b, ps) IN
        /\ CanDeliver(e)
        /\ runs' = RunsAfter(e)
        /\ event' = EventAfter(e)
        /\ deployed' \in DeployedAfter(e)
        /\ UNCHANGED nonCiVars

\* Any pull_request event: any activity type, mergeable or not, any change.
PullRequestAny ==
    \E pr \in PullRequests, a \in PullRequestActions, c \in BOOLEAN,
       ps \in SUBSET ChangedPaths :
        LET e == PullRequestEvent(pr, a, c, ps) IN
        /\ CanDeliver(e)
        /\ runs' = RunsAfter(e)
        /\ event' = EventAfter(e)
        /\ deployed' \in DeployedAfter(e)
        /\ UNCHANGED nonCiVars

StepIndex(j, s) == CHOOSE k \in DOMAIN JobSteps(j) : JobSteps(j)[k] = s

JobOf(s) == IF s = "Deploy to GitHub Pages" THEN "deploy" ELSE "build"

\* A queued job starts once every job it needs has succeeded and its `if` holds.
StartJob ==
    \E i \in DOMAIN runs, j \in Jobs :
        /\ runs[i].job[j] = "queued"
        /\ \A n \in JobNeeds(j) : runs[i].job[n] = "success"
        /\ JobIf(j, runs[i])
        /\ runs' = [runs EXCEPT ![i].job[j] = "in_progress"]
        /\ UNCHANGED <<event, deployed>>
        /\ UNCHANGED nonCiVars

\* A queued job is skipped when a job it needs did not succeed, or when its
\* needs are met and its `if` is false.
SkipJob ==
    \E i \in DOMAIN runs, j \in Jobs :
        /\ runs[i].job[j] = "queued"
        /\ \/ \E n \in JobNeeds(j) : runs[i].job[n] \in JobDone \ {"success"}
           \/ /\ \A n \in JobNeeds(j) : runs[i].job[n] = "success"
              /\ ~JobIf(j, runs[i])
        /\ runs' = [runs EXCEPT
                      ![i].job[j] = "skipped",
                      ![i].step = [s \in Steps |->
                                     IF JobOf(s) = j THEN "skipped" ELSE @[s]]]
        /\ UNCHANGED <<event, deployed>>
        /\ UNCHANGED nonCiVars

\* The runner of a job starts the job's next step when none is running.
StartStep ==
    \E i \in DOMAIN runs, j \in Jobs :
        LET ss == JobSteps(j) IN
        /\ runs[i].job[j] = "in_progress"
        /\ \A k \in DOMAIN ss : runs[i].step[ss[k]] # "running"
        /\ \E k \in DOMAIN ss :
              /\ runs[i].step[ss[k]] = "pending"
              /\ \A m \in 1..(k - 1) : runs[i].step[ss[m]] = "success"
              /\ runs' = [runs EXCEPT ![i].step[ss[k]] = "running"]
        /\ UNCHANGED <<event, deployed>>
        /\ UNCHANGED nonCiVars

\* A running step ends successfully; the job succeeds with its last step.
StepSucceed ==
    \E i \in DOMAIN runs, s \in Steps :
        LET j == JobOf(s) IN
        /\ runs[i].step[s] = "running"
        /\ runs' = [runs EXCEPT
                      ![i].step[s] = "success",
                      ![i].job[j] = IF StepIndex(j, s) = Len(JobSteps(j))
                                    THEN "success" ELSE @]
        /\ deployed' = IF s = "Deploy to GitHub Pages" THEN runs[i].sha ELSE deployed
        /\ UNCHANGED event
        /\ UNCHANGED nonCiVars

\* A running step fails: the steps after it are skipped and the job fails.
StepFail ==
    \E i \in DOMAIN runs, s \in Steps :
        LET j == JobOf(s) IN
        /\ runs[i].step[s] = "running"
        /\ runs' = [runs EXCEPT
                      ![i].job[j] = "failure",
                      ![i].step = [t \in Steps |->
                                     IF t = s THEN "failure"
                                     ELSE IF JobOf(t) = j /\ @[t] = "pending"
                                          THEN "skipped" ELSE @[t]]]
        /\ UNCHANGED <<event, deployed>>
        /\ UNCHANGED nonCiVars

NoEvent ==
    [kind |-> "none", branch |-> "main", pr |-> 0, action |-> "none",
     conflict |-> FALSE, paths |-> {}, run |-> 0]

CiInit ==
    /\ runs = <<>>
    /\ event = NoEvent
    /\ deployed = 0

(***************************************************************************)
(* The site configuration (docusaurus.config): an object literal, given    *)
(* here as the list of its property definitions in source order.           *)
(***************************************************************************)
OnBrokenLinksWarn == "warn"

OnBrokenLinks == "throw"

OnBrokenMarkdownLinks == "warn"

\* A site path is the sequence of its segments.
RedirectsToOtherSection ==
    <<[to |-> <<"docs", "GettingStarted", "admin_ui">>,
       from |-> <<"docs", "Getting Started", "admin_ui">>],
      [to |-> <<"docs", "GettingStarted", "clients">>,
       from |-> <<"docs", "Getting Started", "clients">>],
      [to |-> <<"docs", "GettingStarted", "configuration">>,
       from |-> <<"docs", "Getting Started", "configuration">>],
      [to |-> <<"docs", "GettingStarted", "installation">>,
       from |-> <<"docs", "Getting Started", "installation">>],
      [to |-> <<"docs", "GettingStarted", "concepts">>,
       from |-> <<"docs", "User Manual", "concepts">>]>>

RedirectsChained ==
    <<[to |-> <<"docs", "GettingStarted", "admin_ui">>,
       from |-> <<"docs", "Getting Started", "admin_ui">>],
      [to |-> <<"docs", "GettingStarted", "clients">>,
       from |-> <<"docs", "Getting Started", "clients">>],
      [to |-> <<"docs", "GettingStarted", "configuration">>,
       from |-> <<"docs", "Getting Started", "configuration">>],
      [to |-> <<"docs", "GettingStarted", "installation">>,
       from |-> <<"docs", "GettingStarted", "admin_ui">>],
      [to |-> <<"docs", "UserManual", "concepts">>,
       from |-> <<"docs", "User Manual", "concepts">>]>>

Redirects ==
    <<[to |-> <<"docs", "GettingStarted", "admin_ui">>,
       from |-> <<"docs", "Getting Started", "admin_ui">>],
      [to |-> <<"docs", "GettingStarted", "clients">>,
       from |-> <<"docs", "Getting Started", "clients">>],
      [to |-> <<"docs", "GettingStarted", "configuration">>,
       from |-> <<"docs", "Getting Started", "configuration">>],
      [to |-> <<"docs", "GettingStarted", "installation">>,
       from |-> <<"docs", "Getting Started", "installation">>],
      [to |-> <<"docs", "UserManual", "concepts">>,
       from |-> <<"docs", "User Manual", "concepts">>]>>

Presets ==
    <<<<"classic",
        [docs |-> [sidebarPath |-> "./sidebars.ts",
                   editUrl |-> "https://github.com/DewyKB/DewyKB.github.io/tree/main/",
                   docRootComponent |-> "@theme/DocRoot",
                   docItemComponent |-> "@theme/ApiItem",
                   remarkPlugins |-> <<"remarkDefList">>],
         blog |-> [showReadingTime |-> TRUE,
                   editUrl |-> "https://github.com/DewyKB/DewyKB.github.io/tree/main/",
                   remarkPlugins |-> <<"remarkDefList">>],
         theme |-> [customCss |-> "./src/css/custom.css"],
         gtag |-> [trackingID |-> "G-EKMFC8FKD0", anonymizeIP |-> TRUE],
         sitemap |-> [changefreq |-> "daily"]]>>>>

ThemeConfig ==
    [image |-> "img/docusaurus-social-card.jpg",
     navbar |-> [title |-> "Dewy",
                 logo |-> [alt |-> "My Site Logo", src |-> "img/logo.svg"],
                 items |-> <<"Documentation", "Blog", "GitHub">>],
     footer |-> [style |-> "dark",
                 links |-> <<"Docs", "Community", "More">>,
                 copyright |-> "Copyright Dewy Contributors."],
     prism |-> [theme |-> "github", darkTheme |-> "dracula"]]

Plugins ==
    <<<<"docusaurus-plugin-openapi-docs",
        [id |-> "api",
         docsPluginId |-> "classic",
         config |-> [dewy |-> [specPath |-> "specs",
                               outputDir |-> "docs/api",
                               hideSendButton |-> TRUE]]]>>,
      <<"@docusaurus/plugin-client-redirects",
        [fromExtensions |-> <<"html", "htm">>,
         redirects |-> Redirects]>>>>

\* The property definitions of `const config: Config = { ... }`, in order.
ConfigSource ==
    <<[key |-> "title", value |-> "Dewy"],
      [key |-> "tagline", value |-> "The Knowledge Base API for GenAI"],
      [key |-> "favicon", value |-> "img/favicon.svg"],
      [key |-> "url", value |-> "https://DewyKB.github.io"],
      [key |-> "baseUrl", value |-> "/"],
      [key |-> "organizationName", value |-> "DewyKB"],
      [key |-> "projectName", value |-> "dewy"],
      [key |-> "onBrokenLinks", value |-> OnBrokenLinks],
      [key |-> "onBrokenMarkdownLinks", value |-> OnBrokenMarkdownLinks],
      [key |-> "i18n", value |-> [defaultLocale |-> "en", locales |-> <<"en">>]],
      [key |-> "markdown", value |-> [mermaid |-> TRUE]],
      [key |-> "themes", value |-> <<"@docusaurus/theme-mermaid">>],
      [key |-> "presets", value |-> Presets],
      [key |-> "themeConfig", value |-> ThemeConfig],
      [key |-> "themes", value |-> <<"docusaurus-theme-openapi-docs">>],
      [key |-> "plugins", value |-> Plugins]>>

\* An object with property key set to value: a property that is defined
\* again takes the later value.
DefineProperty(obj, key, value) ==
    [k \in DOMAIN obj \cup {key} |-> IF k = key THEN value ELSE obj[k]]

EmptyObject == [k \in {} |-> ""]

\* The options of plugin `name` in configuration cfg.
PluginOptions(cfg, name) ==
    LET ps == cfg["plugins"]
        i  == CHOOSE i \in DOMAIN ps : ps[i][1] = name
    IN  ps[i][2]

(***************************************************************************)
(* The OpenAPI document: paths, and the operations of each.                *)
(***************************************************************************)
PathCollections ==
    [path |-> "/api/collections/",
     ops  |-> <<[method |-> "get", operationId |-> "listCollections"],
                [method |-> "post", operationId |-> "addCollection"]>>]

PathCollection ==
    [path |-> "/api/collections/{name}",
     ops  |-> <<[method |-> "get", operationId |-> "getCollection"],
                [method |-> "delete", operationId |-> "deleteCollection"]>>]

PathDocuments ==
    [path |-> "/api/documents/",
     ops  |-> <<[method |-> "post", operationId |-> "addDocument"],
                [method |-> "get", operationId |-> "listDocuments"]>>]

PathDocumentContent ==
    [path |-> "/api/documents/{document_id}/content",
     ops  |-> <<[method |-> "post", operationId |-> "uploadDocumentContent"]>>]

PathDocument ==
    [path |-> "/api/documents/{id}",
     ops  |-> <<[method |-> "get", operationId |-> "getDocument"],
                [method |-> "delete", operationId |-> "deleteDocument"]>>]

PathDocumentStatusAsGetDocument ==
    [path |-> "/api/documents/{id}/status",
     ops  |-> <<[method |-> "get", operationId |-> "getDocument"]>>]

PathDocumentStatus ==
    [path |-> "/api/documents/{id}/status",
     ops  |-> <<[method |-> "get", operationId |-> "getDocumentStatus"]>>]

PathChunks ==
    [path |-> "/api/chunks/",
     ops  |-> <<[method |-> "get", operationId |-> "listChunks"]>>]

PathChunk ==
    [path |-> "/api/chunks/{id}",
     ops  |-> <<[method |-> "get", operationId |-> "getChunk"]>>]

PathChunksRetrieve ==
    [path |-> "/api/chunks/retrieve",
     ops  |-> <<[method |-> "post", operationId |-> "retrieveChunks"]>>]

OpenApiPaths ==
    <<PathCollections, PathCollection, PathDocuments, PathDocumentContent,
      PathDocument, PathDocumentStatus, PathChunks, PathChunk,
      PathChunksRetrieve>>

\* The operations of the document, in document order.
RECURSIVE OperationsOf(_)
OperationsOf(paths) ==
    IF paths = <<>> THEN <<>>
    ELSE [k \in DOMAIN Head(paths).ops |->
            [path |-> Head(paths).path,
             method |-> Head(paths).ops[k].method,
             operationId |-> Head(paths).ops[k].operationId]]
         \o OperationsOf(Tail(paths))

Operations == OperationsOf(OpenApiPaths)

(***************************************************************************)
(* The blog posts: the front matter of each, as its list of entries. The   *)
(* value of `image` is given character by character.                       *)
(***************************************************************************)
PostIntroducingDewy ==
    [source |-> "blog/2024-02-01-introducing-dewy/index.mdx",
     frontMatter |->
       <<[key |-> "slug", value |-> "introducing-dewy"],
         [key |-> "title", value |-> "Introducing Dewy"],
         [key |-> "image",
          value |-> <<".", "/", "d", "e", "w", "y", "_", "a", "r", "c", "h", "i", "t", "e", "c", "t", "u", "r", "e", ".", "p", "n", "g">>],
         [key |-> "authors", value |-> "ryan, ben"],
         [key |-> "keywords", value |-> "Dewy, ..."]>>]

PostRagForReal ==
    [source |-> "blog/2024-02-16-rag-for-real/index.mdx",
     frontMatter |->
       <<[key |-> "slug", value |-> "rag-for-real"],
         [key |-> "title", value |-> "RAG for Real - Gotchas to consider before building your app"],
         [key |-> "description", value |-> "Explore key challenges ..."],
         [key |-> "image",
          value |-> <<".", "/", "b", "a", "n", "n", "e", "r", ".", "p", "n", "g">>],
         [key |-> "keywords", value |-> "RAG applications, ..."],
         [key |-> "authors", value |-> "ryan"]>>]

PostLangchainCliSvg ==
    [source |-> "unnamed/part_001",
     frontMatter |->
       <<[key |-> "slug", value |-> "langchain-python-cli"],
         [key |-> "title", value |-> "Building a question-answering CLI with LangChain and Dewy"],
         [key |-> "description", value |-> "This guide will walk you through ..."],
         [key |-> "image",
          value |-> <<".", "/", "b", "a", "n", "n", "e", "r", ".", "s", "v", "g">>],
         [key |-> "keywords", value |-> "question-answering CLI, ..."],
         [key |-> "authors", value |-> "ben"]>>]

PostLangchainCli ==
    [source |-> "unnamed/part_001",
     frontMatter |->
       <<[key |-> "slug", value |-> "langchain-python-cli"],
         [key |-> "title", value |-> "Building a question-answering CLI with LangChain and Dewy"],
         [key |-> "description", value |-> "This guide will walk you through ..."],
         [key |-> "image",
          value |-> <<".", "/", "b", "a", "n", "n", "e", "r", ".", "p", "n", "g">>],
         [key |-> "keywords", value |-> "question-answering CLI, ..."],
         [key |-> "authors", value |-> "ben"]>>]

PostRagTool ==
    [source |-> "unnamed/part_001",
     frontMatter |->
       <<[key |-> "slug", value |-> "rag-tool-vercel-gen-ai"],
         [key |-> "title", value |-> "Building a RAG tool with Dewy and Vercel's Generative UI components"],
         [key |-> "description", value |-> "A tutorial showing how to implement retrieval ..."],
         [key |-> "image",
          value |-> <<"r", "a", "g", "-", "t", "o", "o", "l", ".", "p", "n", "g">>],
         [key |-> "keywords", value |-> "RAG tool development, ..."],
         [key |-> "authors", value |-> "ryan"]>>]

BlogPosts == <<PostIntroducingDewy, PostRagForReal, PostLangchainCli, PostRagTool>>

\* The front matter as the object it parses to.
RECURSIVE ParseFrontMatter(_)
ParseFrontMatter(entries) ==
    IF entries = <<>> THEN EmptyObject
    ELSE LET n == Len(entries) IN
         DefineProperty(ParseFrontMatter(SubSeq(entries, 1, n - 1)),
                        entries[n].key, entries[n].value)

\* The extension of a file name: the characters after its last ".", or no
\* characters when it has none.
Extension(name) ==
    LET dots == {i \in DOMAIN name : name[i] = "."} IN
    IF dots = {} THEN <<>>
    ELSE LET last == CHOOSE i \in dots : \A j \in dots : j <= i
         IN  SubSeq(name, last + 1, Len(name))

(***************************************************************************)
(* The footer theme override (src/theme/Footer/Layout/index.js).           *)
(***************************************************************************)
\* A React element: its type and its props.
Element(type, props) == [type |-> type, props |-> props]

\* {...props}: every own property of props, each with its value.
Spread(props) == [k \in DOMAIN props |-> props[k]]

TrackingImage ==
    Element("img",
            [referrerpolicy |-> "no-referrer-when-downgrade",
             src |-> "https://static.scarf.sh/a.png?x-pxid=1ae0716d-6256-423a-acf3-dc0a41f831c3"])

LayoutWrapperNoProps(props) ==
    Element("Fragment",
            [children |-> <<Element("Layout", EmptyObject), TrackingImage>>])

LayoutWrapper(props) ==
    Element("Fragment",
            [children |-> <<Element("Layout", Spread(props)), TrackingImage>>])

\* The props the footer may be rendered with: any choice of the footer's
\* properties, in either style.
FooterPropNames == {"style", "links", "copyright"}

FooterProps ==
    UNION {[names -> {"dark", "light"}] : names \in SUBSET FooterPropNames}

(***************************************************************************)
(* The site generator: it evaluates the configuration, generates the API   *)
(* reference from the OpenAPI document, loads the blog posts, resolves the *)
(* markdown links and checks the links of the built pages.                 *)
(***************************************************************************)
MaxHops == 3

\* The log after a defect is reported at a severity: 'ignore' reports
\* nothing, 'throw' reports an error.
Reported(severity, message) ==
    IF severity = "ignore" THEN log
    ELSE Append(log, [level |-> IF severity = "throw" THEN "error" ELSE severity,
                      message |-> message])

\* Evaluation of the next property definition of the configuration.
EvalConfigProperty ==
    /\ phase = "config"
    /\ idx <= Len(ConfigSource)
    /\ config' = DefineProperty(config, ConfigSource[idx].key, ConfigSource[idx].value)
    /\ idx' = idx + 1
    /\ UNCHANGED <<phase, apiDocs, blogMeta, content, log, start, location, hops, rendered>>
    /\ UNCHANGED nonSiteVars

\* The configuration object is complete: yarn gen-api-docs starts.
ConfigLoaded ==
    /\ phase = "config"
    /\ idx > Len(ConfigSource)
    /\ phase' = "apidocs"
    /\ idx' = 1
    /\ UNCHANGED <<config, apiDocs, blogMeta, content, log, start, location, hops, rendered>>
    /\ UNCHANGED nonSiteVars

\* yarn gen-api-docs: one page per operation, in a file named by its
\* operationId; a page written under a name already used replaces it.
GenApiDoc ==
    /\ phase = "apidocs"
    /\ idx <= Len(Operations)
    /\ apiDocs' = DefineProperty(apiDocs, Operations[idx].operationId, Operations[idx])
    /\ idx' = idx + 1
    /\ UNCHANGED <<phase, config, blogMeta, content, log, start, location, hops, rendered>>
    /\ UNCHANGED nonSiteVars

\* The API reference is generated: yarn build starts with the blog.
ApiDocsGenerated ==
    /\ phase = "apidocs"
    /\ idx > Len(Operations)
    /\ phase' = "blog"
    /\ idx' = 1
    /\ UNCHANGED <<config, apiDocs, blogMeta, content, log, start, location, hops, rendered>>
    /\ UNCHANGED nonSiteVars

\* The blog plugin loads the next post and parses its front matter.
LoadBlogPost ==
    /\ phase = "blog"
    /\ idx <= Len(BlogPosts)
    /\ blogMeta' = Append(blogMeta,
                          [source |-> BlogPosts[idx].source,
                           frontMatter |-> ParseFrontMatter(BlogPosts[idx].frontMatter)])
    /\ idx' = idx + 1
    /\ UNCHANGED <<phase, config, apiDocs, content, log, start, location, hops, rendered>>
    /\ UNCHANGED nonSiteVars

BlogLoaded ==
    /\ phase = "blog"
    /\ idx > Len(BlogPosts)
    /\ phase' = "markdown"
    /\ UNCHANGED <<idx, config, apiDocs, blogMeta, content, log, start, location, hops, rendered>>
    /\ UNCHANGED nonSiteVars

\* Markdown links are resolved to pages; one that cannot be resolved is
\* reported as config.onBrokenMarkdownLinks says.
ResolveMarkdownLinks ==
    /\ phase = "markdown"
    /\ IF content.brokenMarkdownLinks
       THEN /\ log' = Reported(config["onBrokenMarkdownLinks"], "broken markdown link")
            /\ phase' = IF config["onBrokenMarkdownLinks"] = "throw"
                        THEN "failed" ELSE "links"
       ELSE /\ log' = log
            /\ phase' = "links"
    /\ UNCHANGED <<idx, config, apiDocs, blogMeta, content, start, location, hops, rendered>>
    /\ UNCHANGED nonSiteVars

\* The links of the built pages are checked; a broken one is reported as
\* config.onBrokenLinks says.
CheckBrokenLinks ==
    /\ phase = "links"
    /\ IF content.brokenLinks
       THEN /\ log' = Reported(config["onBrokenLinks"], "broken link")
            /\ phase' = IF config["onBrokenLinks"] = "throw"
                        THEN "failed" ELSE "built"
       ELSE /\ log' = log
            /\ phase' = "built"
    /\ UNCHANGED <<idx, config, apiDocs, blogMeta, content, start, location, hops, rendered>>
    /\ UNCHANGED nonSiteVars

(***************************************************************************)
(* The built site: client redirects and the footer of a page.              *)
(***************************************************************************)
\* A location of the site: a path and the extension it was asked with.
Page(path) == [path |-> path, ext |-> ""]

\* The routes of the pages of the site.
Routes ==
    {<<"docs", "GettingStarted", "admin_ui">>,
     <<"docs", "GettingStarted", "clients">>,
     <<"docs", "GettingStarted", "configuration">>,
     <<"docs", "GettingStarted", "installation">>,
     <<"docs", "UserManual", "concepts">>,
     <<"docs", "UserManual", "loading">>,
     <<"docs", "integrations">>}

\* The redirects plugin-client-redirects creates from its options: the
\* entries of `redirects`, and for each route one per `fromExtensions`.
RedirectPages(cfg) ==
    LET opts == PluginOptions(cfg, "@docusaurus/plugin-client-redirects") IN
    {[from |-> Page(opts.redirects[i].from), to |-> Page(opts.redirects[i].to)] :
        i \in DOMAIN opts.redirects}
    \cup
    {[from |-> [path |-> r, ext |-> opts.fromExtensions[k]], to |-> Page(r)] :
        r \in Routes, k \in DOMAIN opts.fromExtensions}

\* The locations a visitor may ask for.
Locations ==
    {Page(r) : r \in Routes}
    \cup {r.from : r \in RedirectPages(config)}

\* A visitor asks for a location of the built site.
Visit ==
    /\ phase = "built"
    /\ \E l \in Locations :
          /\ start' = l
          /\ location' = l
    /\ hops' = 0
    /\ rendered' = <<>>
    /\ UNCHANGED <<phase, idx, config, apiDocs, blogMeta, content, log>>
    /\ UNCHANGED nonSiteVars

\* The page at the visitor's location is a redirect page: the visitor is
\* sent to its target.
FollowRedirect ==
    /\ phase = "built"
    /\ hops < MaxHops
    /\ rendered = <<>>
    /\ \E r \in RedirectPages(config) :
          /\ r.from = location
          /\ location' = r.to
    /\ hops' = hops + 1
    /\ UNCHANGED <<phase, idx, config, apiDocs, blogMeta, content, log, start, rendered>>
    /\ UNCHANGED nonSiteVars

\* The page at the visitor's location is rendered, its footer by the wrapper.
RenderFooter ==
    /\ phase = "built"
    /\ location.ext = "" /\ location.path \in Routes
    /\ rendered = <<>>
    /\ \E props \in FooterProps :
          rendered' = <<[props |-> props, output |-> LayoutWrapper(props)]>>
    /\ UNCHANGED <<phase, idx, config, apiDocs, blogMeta, content, log, start, location, hops>>
    /\ UNCHANGED nonSiteVars

NoContentDefects == [brokenLinks |-> FALSE, brokenMarkdownLinks |-> FALSE]

\* The generator before it starts, on content with the given defects.
SiteStart(c) ==
    /\ phase = "config"
    /\ idx = 1
    /\ config = EmptyObject
    /\ apiDocs = EmptyObject
    /\ blogMeta = <<>>
    /\ content = c
    /\ log = <<>>
    /\ start = Page(<<>>)
    /\ location = Page(<<>>)
    /\ hops = 0
    /\ rendered = <<>>

SiteInit ==
    \E c \in [brokenLinks : BOOLEAN, brokenMarkdownLinks : BOOLEAN] : SiteStart(c)

(***************************************************************************)
(* The response schema of listChunks (items) and getChunk: oneOf TextChunk *)
(* and ImageChunk. A JSON value is a record of its type and its text.      *)
(***************************************************************************)
JStr(s) == [type |-> "string", text |-> s]

JInt(s) == [type |-> "integer", text |-> s]

JBool(s) == [type |-> "boolean", text |-> s]

JNull == [type |-> "null", text |-> "null"]

JsonTypes == {"string", "integer", "boolean", "null", "number", "array", "object"}

\* Property schemas: `type: t`, `anyOf: [type: t, type: 'null']`, `const: v`.
OfType(t) == [types |-> {t}, const |-> <<>>]

Nullable(t) == [types |-> {t, "null"}, const |-> <<>>]

Const(v) == [types |-> JsonTypes, const |-> <<v>>]

\* components.schemas.TextChunk
TextChunkRequired == {"id", "document_id", "text", "raw"}

TextChunk ==
    [title |-> "TextChunk",
     properties |->
       [id |-> OfType("integer"),
        document_id |-> OfType("integer"),
        kind |-> Const(JStr("text")),
        text |-> OfType("string"),
        raw |-> OfType("boolean"),
        start_char_idx |-> Nullable("integer"),
        end_char_idx |-> Nullable("integer")],
     required |-> TextChunkRequired]

\* components.schemas.ImageChunk
ImageChunkRequired ==
    {"id", "document_id", "image", "image_mimetype", "image_path", "image_url"}

ImageChunk ==
    [title |-> "ImageChunk",
     properties |->
       [id |-> OfType("integer"),
        document_id |-> OfType("integer"),
        kind |-> Const(JStr("image")),
        image |-> Nullable("string"),
        image_mimetype |-> Nullable("string"),
        image_path |-> Nullable("string"),
        image_url |-> Nullable("string")],
     required |-> ImageChunkRequired]

\* A value against a property schema.
PropertyValid(ps, v) ==
    /\ v.type \in ps.types
    /\ ps.const # <<>> => v = ps.const[1]

\* An object against an object schema: the required properties are there,
\* and each property the schema describes has a valid value; properties
\* the schema does not describe are allowed.
Valid(schema, obj) ==
    /\ schema.required \subseteq DOMAIN obj
    /\ \A f \in DOMAIN obj \cap DOMAIN schema.properties :
          PropertyValid(schema.properties[f], obj[f])

\* oneOf [TextChunk, ImageChunk]: the schemas the object is valid against.
ChunkVariants(obj) == {s \in {TextChunk, ImageChunk} : Valid(s, obj)}

\* The verdict of the response schema: the one variant, or rejected.
Validated(obj) ==
    IF Cardinality(ChunkVariants(obj)) = 1
    THEN (CHOOSE s \in ChunkVariants(obj) : TRUE).title
    ELSE "rejected"

\* The objects a client may receive: with or without ids, with any kind or
\* none, with the text properties (well typed or not) or without, with the
\* image properties (null or strings) or without.
IdParts == {EmptyObject, [id |-> JInt("1"), document_id |-> JInt("7")]}

KindParts ==
    {EmptyObject, [kind |-> JStr("text")], [kind |-> JStr("image")],
     [kind |-> JStr("table")]}

TextParts ==
    {EmptyObject,
     [text |-> JStr("a chunk"), raw |-> JBool("false")],
     [text |-> JInt("5"), raw |-> JBool("false")]}

ImageParts ==
    {EmptyObject,
     [image |-> JNull, image_mimetype |-> JNull, image_path |-> JNull,
      image_url |-> JNull],
     [image |-> JStr("aGk="), image_mimetype |-> JStr("image/png"),
      image_path |-> JNull, image_url |-> JStr("http://localhost/i.png")]}

Candidates ==
    {i @@ k @@ t @@ m :
        i \in IdParts, k \in KindParts, t \in TextParts, m \in ImageParts}

\* The client validates the chunk it received against the response schema.
Validate ==
    /\ verdict = "none"
    /\ verdict' = Validated(chunk)
    /\ UNCHANGED chunk
    /\ UNCHANGED nonApiVars

ApiInit ==
    /\ chunk \in Candidates
    /\ verdict = "none"

ApiIdle ==
    /\ chunk = EmptyObject
    /\ verdict = "none"

(***************************************************************************)
(* The documents of the knowledge base (addDocument,                       *)
(* uploadDocumentContent, getDocumentStatus) and their ingestion.          *)
(***************************************************************************)
\* A value that is null / None / undefined.
Null == "null"

\* components.schemas.IngestState
IngestState == {"pending", "ingested", "failed"}

\* components.schemas.Document, with the content versions the service has
\* been given for it (version) and the one ingestion last worked on.
NewDocument(id, body) ==
    [id |-> id,
     collection |-> body.collection,
     url |-> body.url,
     ingest_state |-> "pending",
     ingest_error |-> Null,
     version |-> IF body.url = Null THEN 0 ELSE 1,
     extracted |-> 0]

\* uploadDocumentContent: the content is a new version of the document,
\* which is ingested (again); the state is pending when the call returns.
ContentUploadedKeepsState(doc) ==
    [doc EXCEPT !.version = @ + 1]

ContentUploaded(doc) ==
    [doc EXCEPT !.version = @ + 1,
                !.ingest_state = "pending",
                !.ingest_error = Null]

\* The outcome of ingesting the newest content of a document.
IngestedNoError(doc, error) ==
    [doc EXCEPT !.extracted = doc.version,
                !.ingest_state = IF error = Null THEN "ingested" ELSE "failed",
                !.ingest_error = Null]

Ingested(doc, error) ==
    [doc EXCEPT !.extracted = doc.version,
                !.ingest_state = IF error = Null THEN "ingested" ELSE "failed",
                !.ingest_error = error]

\* components.schemas.DocumentStatus, as getDocumentStatus answers it.
DocumentStatus(doc) ==
    [id |-> doc.id,
     ingest_state |-> doc.ingest_state,
     ingest_error |-> doc.ingest_error]

DocumentIds == 1..Len(documents)

\* A document has content to ingest once a URL or a file was given for it.
HasContent(doc) == doc.version > 0

\* Another client of the API uploads content to an existing document.
UploadDocumentContent ==
    /\ \E id \in DocumentIds :
        /\ documents[id].version < MaxUploads
        /\ documents' = [documents EXCEPT ![id] = ContentUploaded(@)]
    /\ UNCHANGED <<addFile, calls>>
    /\ UNCHANGED nonLoadVars

\* The asynchronous extraction of a pending document ends well ...
IngestSucceed ==
    /\ \E id \in DocumentIds :
        /\ documents[id].ingest_state = "pending"
        /\ HasContent(documents[id])
        /\ documents' = [documents EXCEPT ![id] = Ingested(@, Null)]
    /\ UNCHANGED <<addFile, calls>>
    /\ UNCHANGED nonLoadVars

\* ... or encounters an error.
IngestErrors == {"unsupported document type"}

IngestFail ==
    /\ \E id \in DocumentIds, error \in IngestErrors :
        /\ documents[id].ingest_state = "pending"
        /\ HasContent(documents[id])
        /\ documents' = [documents EXCEPT ![id] = Ingested(@, error)]
    /\ UNCHANGED <<addFile, calls>>
    /\ UNCHANGED nonLoadVars

(***************************************************************************)
(* The add_file command of the LangChain (Python) question-answering CLI.  *)
(***************************************************************************)
\* The regular files of the machine the command runs on.
Files == {"example.pdf"}

\* What the command is given as url_or_file.
Arguments == {"example.pdf", "https://arxiv.org/pdf/2009.08553.pdf"}

\* os.path.isfile
IsFileAlways(path) == TRUE

IsFile(path) == path \in Files

\* @click.option defaults of the group, stored on the context.
CtxObj == [base_url |-> "http://localhost:8000", collection |-> "main"]

\* AddDocumentRequest(collection=..., url=...)
AddDocumentRequest(collection, url) == [collection |-> collection, url |-> url]

AddFileIdle == [pc |-> "idle", url_or_file |-> Null, document |-> Null]

\* The command is run with an argument.
AddFile ==
    /\ addFile.pc \in {"idle", "done", "error"}
    /\ Len(documents) < MaxDocs
    /\ \E arg \in Arguments :
        addFile' = [pc |-> "client", url_or_file |-> arg, document |-> Null]
    /\ calls' = <<>>
    /\ UNCHANGED documents
    /\ UNCHANGED nonLoadVars

\* if os.path.isfile(url_or_file): document = add_document.sync(...)
AddFileAddDocument ==
    /\ addFile.pc = "client"
    /\ IsFile(addFile.url_or_file)
    /\ LET body == AddDocumentRequest(CtxObj.collection, Null)
           doc == NewDocument(Len(documents) + 1, body)
       IN /\ documents' = Append(documents, doc)
          /\ calls' = Append(calls, [op |-> "add_document", body |-> body])
          /\ addFile' = [addFile EXCEPT !.pc = "added", !.document = doc]
    /\ UNCHANGED nonLoadVars

\* with open(url_or_file, "rb") as file: upload_document_content.sync(...)
AddFileUploadContent ==
    /\ addFile.pc = "added"
    /\ LET id == addFile.document.id
       IN /\ documents' = [documents EXCEPT ![id] = ContentUploaded(@)]
          /\ calls' = Append(calls, [op |-> "upload_document_content",
                                     document_id |-> id,
                                     file_name |-> addFile.url_or_file])
          /\ addFile' = [addFile EXCEPT !.pc = "done"]
    /\ UNCHANGED nonLoadVars

\* else: document = add_document.sync(... url=url_or_file)
AddFileFromUrl ==
    /\ addFile.pc = "client"
    /\ ~IsFile(addFile.url_or_file)
    /\ LET body == AddDocumentRequest(CtxObj.collection, addFile.url_or_file)
           doc == NewDocument(Len(documents) + 1, body)
       IN /\ documents' = Append(documents, doc)
          /\ calls' = Append(calls, [op |-> "add_document", body |-> body])
          /\ addFile' = [addFile EXCEPT !.pc = "done", !.document = doc]
    /\ UNCHANGED nonLoadVars

\* A call to the service raises (the service cannot be reached): the
\* command ends with the error, having made the call.
AddFileCallRaises ==
    /\ addFile.pc \in {"client", "added"}
    /\ calls' = Append(calls,
          IF addFile.pc = "added"
          THEN [op |-> "upload_document_content",
                document_id |-> addFile.document.id,
                file_name |-> addFile.url_or_file]
          ELSE [op |-> "add_document",
                body |-> AddDocumentRequest(CtxObj.collection,
                           IF IsFile(addFile.url_or_file) THEN Null
                           ELSE addFile.url_or_file)])
    /\ addFile' = [addFile EXCEPT !.pc = "error"]
    /\ UNCHANGED documents
    /\ UNCHANGED nonLoadVars

LoadInit ==
    /\ documents = <<>>
    /\ addFile = AddFileIdle
    /\ calls = <<>>

(***************************************************************************)
(* Collections and retrieval: CollectionCreate, RetrieveRequest and the    *)
(* retrieval process of the Indexing & Retrieval page.                     *)
(***************************************************************************)
\* A schema property: its type and its default, if it has one.
Property(type) == [type |-> type, default |-> <<>>]

PropertyWithDefault(type, default) == [type |-> type, default |-> <<default>>]

\* components.schemas.CollectionCreate
CollectionCreate ==
    [title |-> "CollectionCreate",
     properties |->
       [name |-> Property("string"),
        text_embedding_model |->
            PropertyWithDefault("string", JStr("openai:text-embedding-ada-002")),
        text_distance_metric |->
            PropertyWithDefault("string", JStr("cosine"))],
     required |-> {"name"}]

\* components.schemas.DistanceMetric
DistanceMetric == {"cosine", "ip", "l2"}

\* components.schemas.RetrieveRequest
RetrieveRequest ==
    [title |-> "RetrieveRequest",
     properties |->
       [collection |-> Property("string"),
        query |-> Property("string"),
        n |-> PropertyWithDefault("integer", JInt("10")),
        include_text_chunks |-> PropertyWithDefault("boolean", JBool("true")),
        include_image_chunks |-> PropertyWithDefault("boolean", JBool("true")),
        include_summary |-> PropertyWithDefault("boolean", JBool("false"))],
     required |-> {"collection", "query"}]

\* A request body as the service reads it: a property the body leaves out
\* takes the default of the schema.
WithDefaults(schema, body) ==
    LET defaulted == {p \in DOMAIN schema.properties :
                          schema.properties[p].default # <<>>}
    IN [p \in (DOMAIN body) \cup defaulted |->
           IF p \in DOMAIN body THEN body[p]
           ELSE schema.properties[p].default[1]]

\* The decimal numerals of the integers a request may carry.
Numerals == <<"1", "2", "3", "4", "5", "6", "7", "8", "9", "10">>

ToInt(text) ==
    IF text = "0" THEN 0 ELSE CHOOSE i \in DOMAIN Numerals : Numerals[i] = text

\* The tables of the Indexing & Retrieval page: option and default, as
\* written in the table cells.
CollectionConfiguration ==
    <<[configuration |-> "text_embedding_model",
       default |-> "openai:text-embedding-ada-002"],
      [configuration |-> "text_distance_metric", default |-> "cosine"]>>

QueryConfiguration ==
    <<[configuration |-> "n", default |-> "10"],
      [configuration |-> "include_text_chunk", default |-> "True"],
      [configuration |-> "include_image_chunks", default |-> "True"],
      [configuration |-> "include_summary", default |-> "False"]>>

\* The value a table cell denotes.
CellValue(cell) ==
    IF cell = "True" THEN JBool("true")
    ELSE IF cell = "False" THEN JBool("false")
    ELSE IF cell = "0" \/ \E i \in DOMAIN Numerals : Numerals[i] = cell
         THEN JInt(cell)
    ELSE JStr(cell)

\* The chunks of the store, and the embeddings that resolve to them.
ChunkIds == {1, 2}

Scores == 0..MaxScore

Embeddings == [chunk_id : ChunkIds, score : Scores]

Max(S) == CHOOSE x \in S : \A y \in S : y <= x

Min(S) == CHOOSE x \in S : \A y \in S : x <= y

\* "ranked according to their maximum embedding score"
ChunkScoreMin(ix, c) ==
    Min({ix[e].score : e \in {d \in DOMAIN ix : ix[d].chunk_id = c}})

ChunkScore(ix, c) ==
    Max({ix[e].score : e \in {d \in DOMAIN ix : ix[d].chunk_id = c}})

\* "they are resolved back to their corresponding chunks"
Resolved(ix) == {ix[e].chunk_id : e \in DOMAIN ix}

\* components.schemas.TextResult
TextResult(ix, c) ==
    [chunk_id |-> c, document_id |-> 1, score |-> ChunkScore(ix, c),
     text |-> "chunk text", raw |-> TRUE]

\* The chunks in rank order: highest score first, the lower id first among
\* chunks of equal score.
RECURSIVE Ranked(_, _)
Ranked(ix, chunks) ==
    IF chunks = {} THEN <<>>
    ELSE LET best == Max({ChunkScore(ix, c) : c \in chunks})
             first == Min({c \in chunks : ChunkScore(ix, c) = best})
         IN <<TextResult(ix, first)>> \o Ranked(ix, chunks \ {first})

\* "returns the top N chunks"
TopN(results, n) ==
    SubSeq(results, 1, IF n < Len(results) THEN n ELSE Len(results))

\* components.schemas.RetrieveResponse
RetrieveResponse(ix, req) ==
    [summary |-> Null,
     text_results |->
        IF req["include_text_chunks"] = JBool("true")
        THEN TopN(Ranked(ix, Resolved(ix)), ToInt(req["n"].text))
        ELSE <<>>,
     image_results |-> <<>>]

\* What a client may put in the body of addCollection and retrieveChunks.
CollectionBodies ==
    {n @@ m @@ d :
        n \in {[name |-> JStr("main")]},
        m \in {EmptyObject, [text_embedding_model |-> JStr("hf:BAAI/bge-small-en")]},
        d \in {EmptyObject, [text_distance_metric |-> JStr("ip")]}}

RetrieveBodies ==
    {q @@ n @@ t :
        q \in {[collection |-> JStr("main"), query |-> JStr("tell me about RAG")]},
        n \in {EmptyObject} \cup {[n |-> JInt(v)] : v \in {"0", "1", "2"}},
        t \in {EmptyObject, [include_text_chunks |-> JBool("false")]}}

NoRequest == EmptyObject

NoResponse == [summary |-> Null, text_results |-> <<>>, image_results |-> <<>>]

\* addCollection
AddCollection ==
    /\ collections = <<>>
    /\ \E body \in CollectionBodies :
        collections' = Append(collections, WithDefaults(CollectionCreate, body))
    /\ UNCHANGED <<index, request, response>>
    /\ UNCHANGED nonRetrVars

\* retrieveChunks
RetrieveChunks ==
    /\ request = NoRequest
    /\ \E body \in RetrieveBodies :
        /\ \E i \in DOMAIN collections : collections[i]["name"] = body["collection"]
        /\ request' = WithDefaults(RetrieveRequest, body)
        /\ response' = RetrieveResponse(index, WithDefaults(RetrieveRequest, body))
    /\ UNCHANGED <<index, collections>>
    /\ UNCHANGED nonRetrVars

RetrIdle ==
    /\ index = <<>>
    /\ collections = <<>>
    /\ request = NoRequest
    /\ response = NoResponse

RetrInit ==
    /\ index \in [1..MaxEmbeddings -> Embeddings]
    /\ collections = <<>>
    /\ request = NoRequest
    /\ response = NoResponse

(***************************************************************************)
(* The Generative-UI chatbot: submitUserMessage (app/action.tsx) and the   *)
(* product_search tool (app/productSearch.tsx).                            *)
(***************************************************************************)
\* A chat message; name is null unless the role is "function".
Message(role, text) == [role |-> role, content |-> text, name |-> Null]

FunctionMessageUnnamed(name, text) ==
    [role |-> "function", content |-> text, name |-> Null]

FunctionMessage(name, text) ==
    [role |-> "function", content |-> text, name |-> name]

SystemPrompt == Message("system", "You are a product recommendation engine.")

\* What the user types, what the LLM answers, and JSON.stringify(products)
\* for the products a search finds.
UserInputs == {"a gift for a gardener", "something cheaper"}

Completions == {"Here is what I found.", "I found no such product."}

ProductsJson == {"[]", "[\"trowel\"]"}

\* const initialAIState = []
InitialAIState == <<>>

\* The messages of the completion request that render() issues.
RenderMessages(state, userInput) ==
    <<SystemPrompt, Message("user", userInput)>>

\* A completion request, with the AI state at the moment it is issued.
CompletionRequest(model, messages, state) ==
    [model |-> model, messages |-> messages, aiState |-> state]

\* submitUserMessage: the user's message is added to the AI state and
\* render() asks the LLM for a completion.
SubmitUserMessage ==
    /\ chat = "idle"
    /\ Len(SelectSeq(aiState, LAMBDA m : m.role = "user")) < MaxTurns
    /\ \E userInput \in UserInputs :
        LET state == Append(aiState, Message("user", userInput))
        IN /\ aiState' = state
           /\ completions' = Append(completions,
                CompletionRequest("gpt-4-0125-preview",
                                  RenderMessages(state, userInput), state))
    /\ chat' = "render"
    /\ UNCHANGED nonChatVars

\* text: the LLM answers with text; when done the answer joins the history.
RenderText ==
    /\ chat = "render"
    /\ \E text \in Completions :
        aiState' = Append(aiState, Message("assistant", text))
    /\ chat' = "idle"
    /\ UNCHANGED completions
    /\ UNCHANGED nonChatVars

\* tools.product_search.render: the LLM chose the tool; the products found
\* join the history and the LLM is asked again.
ProductSearchRender ==
    /\ chat = "render"
    /\ \E products \in ProductsJson :
        LET state == Append(aiState, FunctionMessage("product_search", products))
        IN /\ aiState' = state
           /\ completions' = Append(completions,
                CompletionRequest("gpt-4-0125-preview", state, state))
    /\ chat' = "stream"
    /\ UNCHANGED nonChatVars

\* OpenAIStream onFinal: the full response joins the history.
ProductSearchFinal ==
    /\ chat = "stream"
    /\ \E completion \in Completions :
        aiState' = Append(aiState, Message("assistant", completion))
    /\ chat' = "idle"
    /\ UNCHANGED completions
    /\ UNCHANGED nonChatVars

ChatInit ==
    /\ aiState = InitialAIState
    /\ chat = "idle"
    /\ completions = <<>>

(***************************************************************************)
(* The chat page of the Generative-UI chatbot (app/page.tsx): the input    *)
(* field and the form's onSubmit handler.                                  *)
(***************************************************************************)
\* What a user types into the input field.
TypedTexts == {"shoes", "socks"}

\* An entry of the UI state is { id, display }. The id is Date.now() at the
\* moment the entry is made; here an entry carries instead the submission
\* whose handling made it (0: none) and which of its two entries it is.
\* initialUIState: the assistant's greeting.
InitialUIState ==
    <<[of |-> 0, kind |-> "assistant", display |-> "Hi! How can I help you today?"]>>

\* { id: Date.now(), display: <UserMessage>{inputValue}</UserMessage> }
UserMessage(n, text) == [of |-> n, kind |-> "user", display |-> text]

\* What submitUserMessage(userInput) returns: { id: Date.now(), display: ui }
ResponseMessage(n, userInput) ==
    [of |-> n, kind |-> "response", display |-> userInput]

\* setMessages((currentMessages) => [...currentMessages, message]): the
\* updater gets the UI state as it is when the update is applied, not the
\* `messages` of the render whose handler calls it.
SetMessagesFromClosure(currentMessages, messages, message) ==
    Append(messages, message)

SetMessages(currentMessages, messages, message) ==
    Append(currentMessages, message)

\* A submission at its await: the inputValue and the messages its handler
\* closed over.
Submission(userInput, messages) ==
    [userInput |-> userInput, messages |-> messages, status |-> "awaiting"]

\* onChange: setInputValue(event.target.value)
OnChange ==
    /\ \E text \in TypedTexts :
          /\ text # inputValue
          /\ inputValue' = text
    /\ UNCHANGED <<uiState, submissions>>
    /\ UNCHANGED nonPageVars

\* onSubmit up to its await: the user's message is added to the UI state
\* and submitUserMessage(inputValue) is called.
OnSubmit ==
    /\ Len(submissions) < MaxSubmissions
    /\ uiState' = SetMessages(uiState, uiState,
                              UserMessage(Len(submissions) + 1, inputValue))
    /\ submissions' = Append(submissions, Submission(inputValue, uiState))
    /\ UNCHANGED inputValue
    /\ UNCHANGED nonPageVars

\* onSubmit after its await: submitUserMessage has returned the response
\* message; it is added to the UI state and the input field is cleared.
OnSubmitResumes ==
    /\ \E n \in DOMAIN submissions :
          /\ submissions[n].status = "awaiting"
          /\ uiState' = SetMessages(uiState, submissions[n].messages,
                           ResponseMessage(n, submissions[n].userInput))
          /\ submissions' = [submissions EXCEPT ![n].status = "responded"]
    /\ inputValue' = ""
    /\ UNCHANGED nonPageVars

\* submitUserMessage rejects: onSubmit ends at its await.
OnSubmitRejects ==
    /\ \E n \in DOMAIN submissions :
          /\ submissions[n].status = "awaiting"
          /\ submissions' = [submissions EXCEPT ![n].status = "rejected"]
    /\ UNCHANGED <<uiState, inputValue>>
    /\ UNCHANGED nonPageVars

\* useState(''), useUIState()
PageInit ==
    /\ uiState = InitialUIState
    /\ inputValue = ""
    /\ submissions = <<>>

(***************************************************************************)
(* The NextJS example: the documents route, the generation function and    *)
(* the chat route.                                                         *)
(***************************************************************************)
\* JavaScript values: undefined, arrays and objects.
Undefined == "undefined"

Array(items) == [kind |-> "array", items |-> items]

Object(fields) == [kind |-> "object", fields |-> fields]

\* value[name] / value.name: undefined unless the object has the property.
GetProp(value, name) ==
    IF value.kind = "object" /\ name \in DOMAIN value.fields
    THEN value.fields[name]
    ELSE Undefined

\* .env.local
ProcessEnv ==
    [OPENAI_API_KEY |-> "sk-key",
     DEWY_ENDPOINT |-> "localhost:8000",
     DEWY_COLLECTION |-> "main"]

\* The forms and chat requests the application receives.
FormUrls == {"https://arxiv.org/abs/2005.11401", "https://example.com/a.pdf"}

Forms == {Object([url |-> u]) : u \in FormUrls}

UserQueries == {"What is RAG?", "Who wrote it?"}

\* useChat posts the conversation: the messages so far, the last one the
\* user's query; another client may post an object with a query property.
ChatRequests ==
    {Object([messages |-> Array(<<Message("user", q)>>)]) : q \in UserQueries}
    \cup {Object([messages |->
                    Array(<<Message("user", "Hello"), Message("assistant", "Hi"),
                            Message("user", q)>>)]) : q \in UserQueries}
    \cup {Object([messages |-> Object([query |-> q])]) : q \in UserQueries}

\* The ids the service gives to new documents.
NewDocumentIds == {18, 19}

\* The identifiers bound in app/api/documents/route.ts when POST returns.
DocumentsRouteScope(req, formData, url, document) ==
    [Dewy |-> "Dewy", runtime |-> "edge", dewy |-> "dewy",
     req |-> req, formData |-> formData, url |-> url, document |-> document]

\* An identifier evaluates to its binding; one that has none is a
\* ReferenceError.
Unbound(scope, identifiers) ==
    {i \in identifiers : i \notin DOMAIN scope}

\* return NextResponse.json({document_id: result.id})
DocumentsResponse(scope) ==
    IF Unbound(scope, {"NextResponse", "result"}) # {}
    THEN [status |-> 500, error |-> "ReferenceError", body |-> Null]
    ELSE [status |-> 200, error |-> Null,
          body |-> [document_id |-> scope["result"].id]]

HandlerIdle == [route |-> "none", pc |-> "idle", request |-> Null]

\* POST /api/documents: up to the call of dewy.kb.addDocument
DocumentsPost ==
    /\ handler.pc = "idle"
    /\ Len(served) < MaxRequests
    /\ \E form \in Forms :
        /\ handler' = [route |-> "documents", pc |-> "addDocument",
                       request |-> form]
        /\ outbound' = <<[op |-> "addDocument",
                          body |-> [collection |-> ProcessEnv.DEWY_COLLECTION,
                                    url |-> GetProp(form, "url")]]>>
    /\ UNCHANGED served
    /\ UNCHANGED nonNextVars

\* addDocument resolved with the new document: the handler returns.
DocumentsRespond ==
    /\ handler.pc = "addDocument"
    /\ \E id \in NewDocumentIds :
        LET document == NewDocument(id, outbound[1].body)
            scope == DocumentsRouteScope(handler.request, handler.request,
                                         outbound[1].body.url, document)
        IN served' = Append(served,
              [route |-> "documents", request |-> handler.request,
               created |-> id, calls |-> outbound,
               response |-> DocumentsResponse(scope)])
    /\ handler' = HandlerIdle
    /\ outbound' = <<>>
    /\ UNCHANGED nonNextVars

\* addDocument rejected (the service answered with an error).
DocumentsAddFailed ==
    /\ handler.pc = "addDocument"
    /\ served' = Append(served,
          [route |-> "documents", request |-> handler.request,
           created |-> 0, calls |-> outbound,
           response |-> [status |-> 500, error |-> "ApiError", body |-> Null]])
    /\ handler' = HandlerIdle
    /\ outbound' = <<>>
    /\ UNCHANGED nonNextVars

\* POST /api/chat: generate(messages), up to the call of retrieveChunks.
\* generate({query}) takes the query property of its argument.
ChatPost ==
    /\ handler.pc = "idle"
    /\ Len(served) < MaxRequests
    /\ \E json \in ChatRequests :
        LET messages == GetProp(json, "messages")
            query == GetProp(messages, "query")
        IN /\ handler' = [route |-> "chat", pc |-> "retrieveChunks",
                          request |-> json]
           /\ outbound' = <<[op |-> "retrieveChunks",
                             body |-> [collection |-> ProcessEnv.DEWY_COLLECTION,
                                       query |-> query,
                                       n |-> 10]]>>
    /\ UNCHANGED served
    /\ UNCHANGED nonNextVars

\* The service answers retrieveChunks: a body without the required query is
\* a validation error; otherwise a RetrieveResponse, of which generate
\* reads context.results.map(...).
ChatTexts == {<<>>, <<"RAG combines retrieval and generation.">>}

ChatRetrieved ==
    /\ handler.pc = "retrieveChunks"
    /\ \E texts \in ChatTexts :
        LET context == Object([summary |-> Null, text_results |-> texts,
                               image_results |-> <<>>])
            error == IF outbound[1].body.query = Undefined THEN "ApiError"
                     ELSE IF GetProp(context, "results") = Undefined
                     THEN "TypeError"
                     ELSE Null
        IN served' = Append(served,
              [route |-> "chat", request |-> handler.request,
               created |-> 0, calls |-> outbound,
               response |-> [status |-> 500, error |-> error, body |-> Null]])
    /\ handler' = HandlerIdle
    /\ outbound' = <<>>
    /\ UNCHANGED nonNextVars

NextJsInit ==
    /\ handler = HandlerIdle
    /\ outbound = <<>>
    /\ served = <<>>

(***************************************************************************)
(* The LangChain.js CLI: the commander program of index.ts and the load    *)
(* and query commands.  Option and property names are sequences of         *)
(* characters.                                                             *)
(***************************************************************************)
UpperCase ==
    [a |-> "A", b |-> "B", c |-> "C", d |-> "D", e |-> "E", f |-> "F", g |-> "G",
     h |-> "H", i |-> "I", j |-> "J", k |-> "K", l |-> "L", m |-> "M", n |-> "N",
     o |-> "O", p |-> "P", q |-> "Q", r |-> "R", s |-> "S", t |-> "T", u |-> "U",
     v |-> "V", w |-> "W", x |-> "X", y |-> "Y", z |-> "Z"]

Upper(c) == IF c \in DOMAIN UpperCase THEN UpperCase[c] ELSE c

\* The name under which commander stores the value of a long flag: the
\* flag without its leading dashes, camel-cased at every dash.
RECURSIVE Camelcase(_)
Camelcase(flag) ==
    IF flag = <<>> THEN <<>>
    ELSE IF Head(flag) = "-" /\ Len(flag) > 1
         THEN <<Upper(flag[2])>> \o Camelcase(SubSeq(flag, 3, Len(flag)))
         ELSE <<Head(flag)>> \o Camelcase(Tail(flag))

AttributeName(flag) == Camelcase(SubSeq(flag, 3, Len(flag)))

\* .option(flags, description, defaultValue) of the load and query commands
FlagCollection == <<"-", "-", "c", "o", "l", "l", "e", "c", "t", "i", "o", "n">>

FlagDewyEndpoint == <<"-", "-", "d", "e", "w", "y", "-", "e", "n", "d", "p", "o", "i", "n", "t">>

FlagOpenaiApiKey == <<"-", "-", "o", "p", "e", "n", "a", "i", "-", "a", "p", "i", "-", "k", "e", "y">>

DefaultOpenAIKey == "sk-from-env"

CommandOptions ==
    [load |-> <<[flag |-> FlagCollection, default |-> "main"],
                [flag |-> FlagDewyEndpoint, default |-> "http://localhost:8000"]>>,
     query |-> <<[flag |-> FlagCollection, default |-> "main"],
                 [flag |-> FlagDewyEndpoint, default |-> "http://localhost:8000"],
                 [flag |-> FlagOpenaiApiKey, default |-> DefaultOpenAIKey]>>]

\* The properties the commands read from the options they are given.
PropCollection == <<"c", "o", "l", "l", "e", "c", "t", "i", "o", "n">>

PropDewyEndpoint == <<"d", "e", "w", "y", "_", "e", "n", "d", "p", "o", "i", "n", "t">>

PropOpenaiApiKey == <<"o", "p", "e", "n", "a", "i", "_", "a", "p", "i", "_", "k", "e", "y">>

\* options.name: undefined unless the options object has the property.
Option(options, name) ==
    IF name \in DOMAIN options THEN options[name] ELSE Undefined

\* program.parse: each option of the command takes the value given on the
\* command line, or its default.
ParsedOptions(command, given) ==
    LET declared == CommandOptions[command]
        ValueOf(i) == IF declared[i].flag \in DOMAIN given
                      THEN given[declared[i].flag]
                      ELSE declared[i].default
    IN [name \in {AttributeName(declared[i].flag) : i \in DOMAIN declared} |->
          ValueOf(CHOOSE i \in DOMAIN declared :
                      AttributeName(declared[i].flag) = name)]

\* The command lines the model runs.
NoFlags == [f \in {} |-> ""]

GivenFlags ==
    {c @@ e @@ k :
        c \in {NoFlags} \cup {[f \in {FlagCollection} |-> v] : v \in {"papers", "notes"}},
        e \in {NoFlags} \cup {[f \in {FlagDewyEndpoint} |-> v] :
                                 v \in {"http://dewy.example:9000",
                                        "http://10.0.0.5:8000"}},
        k \in {NoFlags, [f \in {FlagOpenaiApiKey} |-> "sk-given"]}}

DeclaredFlags(command) ==
    {CommandOptions[command][i].flag : i \in DOMAIN CommandOptions[command]}

CommandArguments ==
    [load |-> {"https://arxiv.org/pdf/2009.08553.pdf",
               "https://arxiv.org/abs/2005.11401"},
     query |-> {"tell me about RAG", "who wrote it"}]

ProgramIdle ==
    [pc |-> "idle", command |-> "none", given |-> NoFlags,
     argument |-> Null, options |-> NoFlags]

\* program.parse(process.argv): the command's action is called with the
\* argument and the options.
Parse ==
    /\ program.pc = "idle"
    /\ \E command \in {"load", "query"}, given \in GivenFlags :
        /\ DOMAIN given \subseteq DeclaredFlags(command)
        /\ \E argument \in CommandArguments[command] :
            program' = [pc |-> command, command |-> command, given |-> given,
                        argument |-> argument,
                        options |-> ParsedOptions(command, given)]
    /\ UNCHANGED <<dewy, sent, reply, console, promise>>
    /\ UNCHANGED nonCliVars

\* utils/colors: success is chalk.green, error is chalk.red.
Success(message) == [color |-> "green", message |-> message]

Error(message) == [color |-> "red", message |-> message]

\* Text written without a colour helper.
Plain(message) == [color |-> "none", message |-> message]

\* console.log and process.stdout.write go to stdout, console.error to
\* stderr. The message of a line is the sequence of its parts.
Stdout(text) == [stream |-> "stdout", text |-> text]

Stderr(text) == [stream |-> "stderr", text |-> text]

\* JSON.stringify(result, null, 2)
Stringify(value) == [json |-> value, indent |-> 2]

\* What addDocument resolves with, the messages of the errors the Dewy and
\* LLM calls reject with, and the chunks of a streamed answer.
AddDocumentResults ==
    {[id |-> 18, collection |-> "main", ingest_state |-> "pending"]}

ErrorMessages == {"fetch failed", "Not Found"}

AnswerChunks == {"RAG combines", " retrieval and generation"}

Pending == [state |-> "pending", value |-> Null]

Fulfilled(value) == [state |-> "resolved", value |-> value]

Rejected(message) == [state |-> "rejected", value |-> message]

FailurePrefix(command) ==
    IF command = "load" THEN "Failed to load file: " ELSE "Failed to query: "

\* try { ... } catch (err: any) { console.error(error(`Failed to ...:
\* ${err.message}`)) }: what a rejection inside the try block makes the
\* command write, and how the command's promise settles.
CatchNothing(command, err) ==
    [written |-> <<>>, promise |-> Rejected(err)]

Catch(command, err) ==
    [written |-> <<Stderr(Error(<<FailurePrefix(command), err>>))>>,
     promise |-> Fulfilled(Null)]

\* load(url, options): the first line is written, then, in the try block,
\* new Dewy({BASE: options.dewy_endpoint}) and addDocument.
Load ==
    /\ program.pc = "load"
    /\ console' = Append(console,
                    Stdout(Success(<<"Loading ", program.argument,
                                     " into collection: ",
                                     Option(program.options, PropCollection)>>)))
    /\ dewy' = [BASE |-> Option(program.options, PropDewyEndpoint)]
    /\ sent' = [op |-> "addDocument",
                collection |-> Option(program.options, PropCollection),
                text |-> program.argument,
                openAIApiKey |-> Null]
    /\ program' = [program EXCEPT !.pc = "awaiting"]
    /\ promise' = Pending
    /\ UNCHANGED reply
    /\ UNCHANGED nonCliVars

\* query(question, options): the first line is written, then, in the try
\* block, new ChatOpenAI({openAIApiKey: options.openai_api_key}), new
\* Dewy({BASE: options.dewy_endpoint}), a DewyRetriever on the collection;
\* the chain asks it for the question.
Query ==
    /\ program.pc = "query"
    /\ console' = Append(console,
                    Stdout(Success(<<"Querying ",
                                     Option(program.options, PropCollection),
                                     " collection for: \"", program.argument,
                                     "\"">>)))
    /\ dewy' = [BASE |-> Option(program.options, PropDewyEndpoint)]
    /\ sent' = [op |-> "retrieveChunks",
                collection |-> Option(program.options, PropCollection),
                text |-> program.argument,
                openAIApiKey |-> Option(program.options, PropOpenaiApiKey)]
    /\ program' = [program EXCEPT !.pc = "awaiting"]
    /\ promise' = Pending
    /\ UNCHANGED reply
    /\ UNCHANGED nonCliVars

\* load: addDocument resolved; the command prints the result ...
CommandSucceeds ==
    /\ program.pc = "awaiting" /\ program.command = "load"
    /\ \E result \in AddDocumentResults :
          /\ reply' = Fulfilled(result)
          /\ console' = console \o
                <<Stdout(Success(<<"File loaded successfully">>)),
                  Stdout(Plain(<<Stringify(result)>>))>>
    /\ program' = [program EXCEPT !.pc = "done"]
    /\ promise' = Fulfilled(Null)
    /\ UNCHANGED <<dewy, sent>>
    /\ UNCHANGED nonCliVars

\* ... or the awaited call (addDocument, chain.streamLog) rejected: the
\* command catches the error and prints it.
CommandFails ==
    /\ program.pc = "awaiting"
    /\ \E err \in ErrorMessages :
          /\ reply' = Rejected(err)
          /\ console' = console \o Catch(program.command, err).written
          /\ promise' = Catch(program.command, err).promise
    /\ program' = [program EXCEPT !.pc = "failed"]
    /\ UNCHANGED <<dewy, sent>>
    /\ UNCHANGED nonCliVars

\* query: chain.streamLog resolved with the stream; "Answer:" is written.
QueryStreamLog ==
    /\ program.pc = "awaiting" /\ program.command = "query"
    /\ console' = Append(console, Stdout(Plain(<<"Answer:">>)))
    /\ program' = [program EXCEPT !.pc = "streaming"]
    /\ UNCHANGED <<dewy, sent, reply, promise>>
    /\ UNCHANGED nonCliVars

\* for await (const chunk of stream): a chunk of the LLM's answer is
\* written to stdout.
QueryChunk ==
    /\ program.pc = "streaming"
    \* two lines precede the chunks; the model writes at most MaxChunks
    /\ Len(console) < 2 + MaxChunks
    /\ \E value \in AnswerChunks :
          console' = Append(console, Stdout(Plain(<<value>>)))
    /\ UNCHANGED <<program, dewy, sent, reply, promise>>
    /\ UNCHANGED nonCliVars

\* The stream ends: the try block is left and query returns.
QueryStreamEnds ==
    /\ program.pc = "streaming"
    /\ reply' = Fulfilled(Null)
    /\ program' = [program EXCEPT !.pc = "done"]
    /\ promise' = Fulfilled(Null)
    /\ UNCHANGED <<dewy, sent, console>>
    /\ UNCHANGED nonCliVars

\* The stream fails (the retriever's call to Dewy or the LLM's call
\* rejects): the error is caught and printed.
QueryStreamFails ==
    /\ program.pc = "streaming"
    /\ \E err \in ErrorMessages :
          /\ reply' = Rejected(err)
          /\ console' = console \o Catch(program.command, err).written
          /\ promise' = Catch(program.command, err).promise
    /\ program' = [program EXCEPT !.pc = "failed"]
    /\ UNCHANGED <<dewy, sent>>
    /\ UNCHANGED nonCliVars

NoClient == [BASE |-> Null]

NothingSent ==
    [op |-> "none", collection |-> Null, text |-> Null, openAIApiKey |-> Null]

NoPromise == [state |-> "none", value |-> Null]

CliInit ==
    /\ program = ProgramIdle
    /\ dewy = NoClient
    /\ sent = NothingSent
    /\ reply = NoPromise
    /\ console = <<>>
    /\ promise = NoPromise

RestIdle ==
    LoadInit /\ RetrIdle /\ ChatInit /\ PageInit /\ NextJsInit /\ CliInit


Init == CiInit /\ SiteStart(NoContentDefects) /\ ApiIdle /\ RestIdle

Next ==
    \/ Push
    \/ PullRequest
    \/ StartJob
    \/ SkipJob
    \/ StartStep
    \/ StepSucceed
    \/ StepFail

Spec == Init /\ [][Next]_vars

\* Pushes alone, and the runners at work: a job that can start or be skipped
\* is, a job at work starts its next step, and a running step ends, in
\* success or in failure.
NextDeploy ==
    \/ Push
    \/ StartJob
    \/ SkipJob
    \/ StartStep
    \/ StepSucceed
    \/ StepFail

SpecDeployFair ==
    /\ Init /\ [][NextDeploy]_vars
    /\ WF_vars(StartJob)
    /\ WF_vars(SkipJob)
    /\ WF_vars(StartStep)
    /\ WF_vars(StepSucceed \/ StepFail)

\* Event delivery alone, over every kind of event: what starts a run.
NextTrigger ==
    \/ PullRequestAny
    \/ PushAny

SpecTrigger == Init /\ [][NextTrigger]_vars

\* The site generator and the visitors of the site it builds.
InitSite == CiInit /\ SiteInit /\ ApiIdle /\ RestIdle

NextSite ==
    \/ EvalConfigProperty
    \/ ConfigLoaded
    \/ GenApiDoc
    \/ ApiDocsGenerated
    \/ LoadBlogPost
    \/ BlogLoaded
    \/ ResolveMarkdownLinks
    \/ CheckBrokenLinks
    \/ Visit
    \/ FollowRedirect
    \/ RenderFooter

SpecSite == InitSite /\ [][NextSite]_vars

\* A client of the API validating the chunks it receives.
InitApi == CiInit /\ SiteStart(NoContentDefects) /\ ApiInit /\ RestIdle

NextApi == Validate

SpecApi == InitApi /\ [][NextApi]_vars

\* The documents of the knowledge base and the add_file command.
InitLoad == Init

NextLoad ==
    \/ AddFile
    \/ AddFileAddDocument
    \/ AddFileUploadContent
    \/ AddFileFromUrl
    \/ AddFileCallRaises
    \/ UploadDocumentContent
    \/ IngestSucceed
    \/ IngestFail

SpecLoad == InitLoad /\ [][NextLoad]_vars

\* Extraction runs as a background task of the service: a pending document
\* with content is eventually worked on.
SpecLoadFair ==
    SpecLoad /\ WF_vars(IngestSucceed \/ IngestFail)

\* Collections and retrieval.
InitRetrieve ==
    /\ CiInit /\ SiteStart(NoContentDefects) /\ ApiIdle
    /\ LoadInit /\ RetrInit /\ ChatInit /\ PageInit /\ NextJsInit /\ CliInit

NextRetrieve ==
    \/ AddCollection
    \/ RetrieveChunks

SpecRetrieve == InitRetrieve /\ [][NextRetrieve]_vars

\* The Generative-UI chatbot.
InitChat == Init

NextChat ==
    \/ SubmitUserMessage
    \/ RenderText
    \/ ProductSearchRender
    \/ ProductSearchFinal

SpecChat == InitChat /\ [][NextChat]_vars

\* The chat page: typing, submitting, and submissions returning in any
\* order.
InitPage == Init

NextPage ==
    \/ OnChange
    \/ OnSubmit
    \/ OnSubmitResumes
    \/ OnSubmitRejects

SpecPage == InitPage /\ [][NextPage]_vars

\* The NextJS example application.
InitNextJs == Init

NextNextJs ==
    \/ DocumentsPost
    \/ DocumentsRespond
    \/ DocumentsAddFailed
    \/ ChatPost
    \/ ChatRetrieved

SpecNextJs == InitNextJs /\ [][NextNextJs]_vars

\* The LangChain.js CLI.
InitCli == Init

NextCli ==
    \/ Parse
    \/ Load
    \/ Query
    \/ CommandSucceeds
    \/ CommandFails
    \/ QueryStreamLog
    \/ QueryChunk
    \/ QueryStreamEnds
    \/ QueryStreamFails

SpecCli == InitCli /\ [][NextCli]_vars

(***************************************************************************)
(* Claims about the Site workflow.                                         *)
(***************************************************************************)
DeployStep == "Deploy to GitHub Pages"

\* A step that was started: it is running or has ended after running.
Executed(st) == st \in {"running", "success", "failure", "cancelled"}

\* C1: the 'Deploy to GitHub Pages' step is executed only in a run whose event
\* is a push and whose ref is refs/heads/main; in a run of a pull_request
\* event the deploy job is never started and its step never executed.
C1_DeployOnlyOnPushToMain ==
    \A i \in DOMAIN runs :
        /\ (Executed(runs[i].step[DeployStep])
              \/ runs[i].job["deploy"] \in {"in_progress", "success", "failure"})
           => (runs[i].event = "push" /\ runs[i].ref = "refs/heads/main")
        /\ runs[i].event = "pull_request"
           => (~Executed(runs[i].step[DeployStep])
                 /\ runs[i].job["deploy"] \in {"queued", "skipped", "cancelled"})

\* C1 witness: a push to main has deployed, and a pull request that targets
\* main has built and uploaded its artifact with its deploy job skipped.
C1_Witness ==
    /\ \E i \in DOMAIN runs :
          /\ runs[i].event = "push"
          /\ runs[i].step[DeployStep] = "success"
    /\ \E i \in DOMAIN runs :
          /\ runs[i].event = "pull_request" /\ runs[i].base = "main"
          /\ runs[i].step["Upload docs"] = "success"
          /\ runs[i].job["deploy"] = "skipped"

\* The order of the steps of a run, as the claim lists them.
C2_Order ==
    <<"checkout", "Install dependencies", "Generate OpenAPI Docs",
      "Build website", "Upload docs", "Deploy to GitHub Pages">>

\* C2: within one run a step of the list checkout, install, generate, build,
\* upload, deploy is started only when every step before it in the list has
\* ended in success; no two steps of a run are running at the same time; and
\* the deploy job is started only when the build job has succeeded.
C2_StepsSequential ==
    \A i \in DOMAIN runs :
        /\ \A k \in DOMAIN C2_Order :
              Executed(runs[i].step[C2_Order[k]])
              => \A m \in 1..(k - 1) : runs[i].step[C2_Order[m]] = "success"
        /\ Cardinality({s \in Steps : runs[i].step[s] = "running"}) <= 1
        /\ runs[i].job["deploy"] \in {"in_progress", "success", "failure"}
           => runs[i].job["build"] = "success"

\* C2 witness: a run in which all six steps, the deploy included, succeeded.
C2_Witness ==
    \E i \in DOMAIN runs :
        /\ \A k \in DOMAIN C2_Order : runs[i].step[C2_Order[k]] = "success"
        /\ runs[i].job["build"] = "success"
        /\ runs[i].job["deploy"] = "success"

\* The run that the last delivered event started is a run of that event.
StartedRun ==
    /\ event.run \in DOMAIN runs
    /\ runs[event.run].event = event.kind
    /\ runs[event.run].ref = EventRef(event)

\* C3 as stated: every push to main and every pull_request event starts a
\* run, whichever paths the change touches; a push to another branch starts
\* none.
C3_EveryEventStartsRun ==
    /\ (event.kind = "push" /\ event.branch = "main") => StartedRun
    /\ event.kind = "pull_request" => StartedRun
    /\ (event.kind = "push" /\ event.branch # "main") => event.run = 0

\* C3 amended: a run is started for every push to main that changes at least
\* one file, and for every pull_request event of activity type opened,
\* synchronize or reopened on a pull request without merge conflict that
\* changes at least one file, whichever paths the change touches; a push to
\* another branch starts none.
C3_TriggeringEventsStartRun ==
    /\ (event.kind = "push" /\ event.branch = "main" /\ event.paths # {})
       => StartedRun
    /\ (event.kind = "pull_request"
          /\ event.action \in {"opened", "synchronize", "reopened"}
          /\ ~event.conflict /\ event.paths # {})
       => StartedRun
    /\ (event.kind = "push" /\ event.branch # "main") => event.run = 0

\* C3 witness: a push to main that touches only a blog post has started the
\* second run, after an earlier event had started the first.
C3_Witness ==
    /\ event.kind = "push" /\ event.branch = "main"
    /\ event.paths = {<<"blog", "post", "index.mdx">>}
    /\ event.run = 2
    /\ StartedRun

(***************************************************************************)
(* Claims about the site generator and the built site.                     *)
(***************************************************************************)
BuildEnded == phase \in {"built", "failed"}

HasReport(level, message) ==
    \E k \in DOMAIN log : log[k] = [level |-> level, message |-> message]

\* C4: the configuration sets onBrokenLinks to 'throw' and
\* onBrokenMarkdownLinks to 'warn'; a build that meets a broken link ends in
\* failure, and a build whose only defect is a broken markdown link reports
\* a warning and completes.
C4_BrokenLinksThrowMarkdownWarns ==
    /\ phase # "config"
       => /\ config["onBrokenLinks"] = "throw"
          /\ config["onBrokenMarkdownLinks"] = "warn"
    /\ (BuildEnded /\ content.brokenLinks)
       => (phase = "failed" /\ HasReport("error", "broken link"))
    /\ (BuildEnded /\ ~content.brokenLinks /\ content.brokenMarkdownLinks)
       => (phase = "built" /\ HasReport("warn", "broken markdown link"))

\* C4 witness: a build whose only defect is a broken markdown link has
\* completed, with the warning in its log.
C4_Witness ==
    /\ phase = "built"
    /\ content.brokenMarkdownLinks /\ ~content.brokenLinks
    /\ HasReport("warn", "broken markdown link")

\* C5: whatever props the footer is rendered with, the wrapper's output is
\* the original Layout with exactly those props, followed by the tracking
\* image, which occurs exactly once.
C5_FooterIsLayoutThenOneImage ==
    \A k \in DOMAIN rendered :
        LET props == rendered[k].props
            kids  == rendered[k].output.props.children
        IN  /\ Len(kids) = 2
            /\ kids[1].type = "Layout"
            /\ DOMAIN kids[1].props = DOMAIN props
            /\ \A p \in DOMAIN props : kids[1].props[p] = props[p]
            /\ kids[2].type = "img"
            /\ Cardinality({i \in DOMAIN kids : kids[i].type = "img"}) = 1
            /\ Cardinality({i \in DOMAIN kids : kids[i].type = "Layout"}) = 1

\* C5 witness: a footer rendered with all three properties, in dark style.
C5_Witness ==
    /\ rendered # <<>>
    /\ DOMAIN rendered[1].props = {"style", "links", "copyright"}
    /\ rendered[1].props["style"] = "dark"
    /\ rendered[1].output.props.children[1].props["style"] = "dark"

\* The redirect table of the evaluated configuration.
RedirectTable ==
    PluginOptions(config, "@docusaurus/plugin-client-redirects").redirects

\* C6: no 'from' path occurs in two entries of the redirect table, no 'to'
\* path is a 'from' path, and a visitor who starts at an old path is, after
\* following redirects, exactly one hop away, at the declared target, where
\* no redirect applies.
C6_RedirectsResolveInOneHop ==
    phase = "built" =>
        /\ \A i, j \in DOMAIN RedirectTable :
              RedirectTable[i].from = RedirectTable[j].from => i = j
        /\ \A i, j \in DOMAIN RedirectTable :
              RedirectTable[i].to # RedirectTable[j].from
        /\ \A i \in DOMAIN RedirectTable :
              (start = Page(RedirectTable[i].from) /\ hops >= 1)
              => /\ hops = 1
                 /\ location = Page(RedirectTable[i].to)
                 /\ \A r \in RedirectPages(config) : r.from # location

\* C6 witness: a visitor of the old concepts page has been sent to the new.
C6_Witness ==
    /\ phase = "built"
    /\ start = Page(<<"docs", "User Manual", "concepts">>)
    /\ hops = 1
    /\ location = Page(<<"docs", "UserManual", "concepts">>)

InList(x, list) == \E i \in DOMAIN list : list[i] = x

\* C7: in the configuration object the generator receives, markdown.mermaid
\* is true and both '@docusaurus/theme-mermaid' and
\* 'docusaurus-theme-openapi-docs' are in the 'themes' list.
C7_MermaidThemeSelected ==
    phase # "config" =>
        /\ config["markdown"].mermaid = TRUE
        /\ InList("@docusaurus/theme-mermaid", config["themes"])
        /\ InList("docusaurus-theme-openapi-docs", config["themes"])

\* The endpoints the documentation names, by resource.
C8_Documented ==
    [collections |-> {"listCollections", "addCollection", "getCollection",
                      "deleteCollection"},
     documents   |-> {"addDocument", "listDocuments", "getDocument",
                      "deleteDocument", "getDocumentStatus",
                      "uploadDocumentContent"},
     chunks      |-> {"listChunks", "getChunk", "retrieveChunks"}]

C8_DocumentedIds ==
    C8_Documented.collections \cup C8_Documented.documents \cup C8_Documented.chunks

\* C8: the OpenAPI document has exactly the 13 documented operations: 4 for
\* collections, 6 for documents, 3 for chunks; each (path, method) pair
\* occurs once and no two operations share an operationId, so that once the
\* API reference is generated it has one page for each of the 13.
C8_ExactlyTheDocumentedEndpoints ==
    /\ {Operations[i].operationId : i \in DOMAIN Operations} = C8_DocumentedIds
    /\ Len(Operations) = 13
    /\ \A i, j \in DOMAIN Operations :
          i # j => /\ <<Operations[i].path, Operations[i].method>>
                        # <<Operations[j].path, Operations[j].method>>
                   /\ Operations[i].operationId # Operations[j].operationId
    /\ phase \notin {"config", "apidocs"}
       => /\ DOMAIN apiDocs = C8_DocumentedIds
          /\ Cardinality(DOMAIN apiDocs) = 13
          /\ \A i \in DOMAIN Operations :
                apiDocs[Operations[i].operationId] = Operations[i]

\* C8 witness: the API reference is generated, the status page included.
C8_Witness ==
    /\ phase = "blog"
    /\ Cardinality(DOMAIN apiDocs) = 13
    /\ apiDocs["getDocumentStatus"].path = "/api/documents/{id}/status"

\* C10: every blog post of the repository has an `image` entry in its front
\* matter, and the image file is not an SVG.
C10_BlogPostsHaveNonSvgImage ==
    /\ \A k \in DOMAIN blogMeta :
          /\ "image" \in DOMAIN blogMeta[k].frontMatter
          /\ Extension(blogMeta[k].frontMatter["image"])
                \notin {<<"s", "v", "g">>, <<"S", "V", "G">>}
    /\ phase \notin {"config", "apidocs", "blog"} => Len(blogMeta) = Len(BlogPosts)

\* C10 witness: all four posts are loaded, and the image of the third, the
\* LangChain CLI post, is a PNG.
C10_Witness ==
    /\ Len(blogMeta) = 4
    /\ Extension(blogMeta[3].frontMatter["image"]) = <<"p", "n", "g">>
    /\ blogMeta[3].frontMatter["slug"] = "langchain-python-cli"

(***************************************************************************)
(* Claims about the chunk response schema.                                 *)
(***************************************************************************)
\* C9: every object accepted as a listChunks item or getChunk response is
\* valid against exactly one of TextChunk and ImageChunk, and its `kind`
\* says which: 'text' with TextChunk, 'image' with ImageChunk.
C9_KindDeterminesVariant ==
    verdict \in {"TextChunk", "ImageChunk"} =>
        /\ Cardinality(ChunkVariants(chunk)) = 1
        /\ "kind" \in DOMAIN chunk
        /\ chunk["kind"] = JStr("text") <=> verdict = "TextChunk"
        /\ chunk["kind"] = JStr("image") <=> verdict = "ImageChunk"

(***************************************************************************)
(* C11: loading from a file is addDocument without a URL followed by       *)
(* uploadDocumentContent for the id addDocument returned; loading from a   *)
(* URL is one addDocument with the URL and no upload.  add_file follows    *)
(* this for every argument: for an existing file it calls add_document     *)
(* and then upload_document_content with that document's id, in that       *)
(* order; otherwise it makes exactly one add_document call carrying the    *)
(* argument as the url and never uploads.                                  *)
(***************************************************************************)
IsUpload(call) == call.op = "upload_document_content"

IsAdd(call) == call.op = "add_document"

C11_AddFileFollowsLoadingProtocol ==
    /\ Len(calls) <= 2
    /\ calls # <<>> => IsAdd(calls[1])
    /\ Len(calls) = 2 =>
        /\ IsUpload(calls[2])
        /\ calls[2].document_id = addFile.document.id
        /\ addFile.document.url = Null
    /\ addFile.pc # "idle" /\ addFile.url_or_file \in Files =>
        /\ calls # <<>> => calls[1].body.url = Null
        /\ addFile.pc = "done" => Len(calls) = 2
    /\ addFile.pc # "idle" /\ addFile.url_or_file \notin Files =>
        /\ Len(calls) <= 1
        /\ calls # <<>> => calls[1].body.url = addFile.url_or_file
        /\ addFile.pc = "done" => Len(calls) = 1

C11_Witness ==
    /\ addFile.pc = "done"
    /\ addFile.url_or_file = "example.pdf"
    /\ Len(calls) = 2
    /\ calls[2].document_id = 2
    /\ documents[1].url = "https://arxiv.org/pdf/2009.08553.pdf"

(***************************************************************************)
(* C12: contents are extracted asynchronously after uploadDocumentContent  *)
(* returns: ingest_state is 'pending' when the call returns and later      *)
(* becomes 'ingested', or 'failed' with ingest_error describing the        *)
(* failure; ingest_state takes no other value, and a document does not     *)
(* stay pending forever.                                                   *)
(***************************************************************************)
Settled(doc) == doc.ingest_state \in {"ingested", "failed"}

\* Content was uploaded to document id in this step.
Uploaded(id) ==
    /\ id \in DocumentIds
    /\ documents'[id].version > documents[id].version

C12_StatusValues ==
    \A id \in DocumentIds :
        LET status == DocumentStatus(documents[id])
        IN /\ status.ingest_state \in {"pending", "ingested", "failed"}
           /\ status.ingest_state = "failed" => status.ingest_error # Null

C12_PendingOnReturn ==
    \A id \in 1..MaxDocs :
        Uploaded(id) => DocumentStatus(documents'[id]).ingest_state = "pending"

C13_OutcomeIsForNewestContent ==
    \A id \in DocumentIds :
        Settled(documents[id]) => documents[id].extracted = documents[id].version

C13_ReuploadStartsIngestion ==
    \A id \in 1..MaxDocs :
        (Uploaded(id) /\ documents[id].ingest_state = "ingested")
            => /\ documents'[id].ingest_state = "pending"
               /\ documents'[id].extracted < documents'[id].version

Retrieved == request # NoRequest

EmbeddingsOf(c) == {e \in DOMAIN index : index[e].chunk_id = c}

IsMaxScoreOf(score, c) ==
    /\ \E e \in EmbeddingsOf(c) : index[e].score = score
    /\ \A e \in EmbeddingsOf(c) : index[e].score <= score

C14_TopNByMaximumEmbeddingScore ==
    Retrieved =>
        LET results == response.text_results
            n == ToInt(request["n"].text)
            returned == {results[i].chunk_id : i \in DOMAIN results}
            leftOut == {index[e].chunk_id : e \in DOMAIN index} \ returned
        IN /\ Len(results) <= n
           /\ \A i \in DOMAIN results :
                IsMaxScoreOf(results[i].score, results[i].chunk_id)
           /\ \A i, j \in DOMAIN results :
                /\ i < j => results[i].score >= results[j].score
                /\ i # j => results[i].chunk_id # results[j].chunk_id
           /\ \A c \in leftOut : \A i \in DOMAIN results :
                \A e \in EmbeddingsOf(c) : index[e].score <= results[i].score
           /\ request["include_text_chunks"] = JBool("true") =>
                \/ Len(results) = n
                \/ leftOut = {}

C14_Witness ==
    /\ Retrieved
    /\ request["n"] = JInt("1")
    /\ index[1] = [chunk_id |-> 2, score |-> 0]
    /\ index[2] = [chunk_id |-> 1, score |-> 1]
    /\ index[3] = [chunk_id |-> 2, score |-> 2]
    /\ Len(response.text_results) = 1
    /\ response.text_results[1].chunk_id = 2
    /\ response.text_results[1].score = 2

(***************************************************************************)
(* C15: every configuration option that the Indexing & Retrieval page      *)
(* documents is a property of the corresponding request schema with the    *)
(* documented default: text_embedding_model and text_distance_metric in    *)
(* CollectionCreate; n, include_text_chunk, include_image_chunks and       *)
(* include_summary in RetrieveRequest.  A request that leaves a documented *)
(* option out is read with the documented default for that option.         *)
(***************************************************************************)
DocumentedDefaultsApply(table, schema, read) ==
    \A i \in DOMAIN table :
        LET option == table[i].configuration
        IN /\ option \in DOMAIN schema.properties
           /\ option \in DOMAIN read
           /\ schema.properties[option].default = <<CellValue(table[i].default)>>

C15_DocumentedOptionsAreSchemaProperties ==
    /\ \A c \in DOMAIN collections :
        DocumentedDefaultsApply(CollectionConfiguration, CollectionCreate,
                                collections[c])
    /\ Retrieved =>
        DocumentedDefaultsApply(QueryConfiguration, RetrieveRequest, request)

(***************************************************************************)
(* C16: in the Generative-UI chatbot the AI state holds the message        *)
(* history and is provided to the LLM each time a chat completion is       *)
(* generated: for every completion request issued while handling           *)
(* submitUserMessage (the initial render request and the follow-up of the  *)
(* product_search tool), the messages sent include every message that is   *)
(* in the AI state at that moment.                                         *)
(***************************************************************************)
Includes(messages, m) == \E i \in DOMAIN messages : messages[i] = m

C16_CompletionsCarryTheHistory ==
    \A r \in DOMAIN completions :
        \A i \in DOMAIN completions[r].aiState :
            Includes(completions[r].messages, completions[r].aiState[i])

(***************************************************************************)
(* C17: in the NextJS chatbot the generation function takes the user's     *)
(* query and the documents retrieved from Dewy and sends them to the       *)
(* OpenAI API: for every chat request handled by the chat route, the       *)
(* query passed to retrieveChunks is the user's query from the request,    *)
(* and the user message in the completion request is that same query,      *)
(* with the retrieved chunk texts in the system prompt.                    *)
(***************************************************************************)
\* The user's query of a chat request: the content of the last message of
\* the conversation, or the query property when the request carries one.
UserQuery(json) ==
    LET messages == GetProp(json, "messages")
    IN IF messages.kind = "array"
       THEN messages.items[Len(messages.items)].content
       ELSE GetProp(messages, "query")

CallsOf(entry, op) ==
    {c \in DOMAIN entry.calls : entry.calls[c].op = op}

C17_GenerateSendsTheUsersQuery ==
    \A i \in DOMAIN served :
        served[i].route = "chat" =>
            LET q == UserQuery(served[i].request)
            IN /\ \E c \in CallsOf(served[i], "retrieveChunks") :
                    served[i].calls[c].body.query = q
               /\ \E c \in CallsOf(served[i], "chat.completions.create") :
                    Includes(served[i].calls[c].messages, Message("user", q))

(***************************************************************************)
(* C18: the NextJS documents route receives a form with a document URL     *)
(* and indexes it: for every POST it calls addDocument exactly once with   *)
(* the form's url and the configured collection, and responds with a JSON  *)
(* body whose document_id is the id of the document that call created;     *)
(* no request ends in an unhandled error when addDocument succeeds.        *)
(***************************************************************************)
C18_DocumentsRouteAnswersWithTheId ==
    \A i \in DOMAIN served :
        served[i].route = "documents" =>
            /\ Len(served[i].calls) = 1
            /\ served[i].calls[1] =
                 [op |-> "addDocument",
                  body |-> [collection |-> "main",
                            url |-> served[i].request.fields["url"]]]
            /\ served[i].created # 0 =>
                 /\ served[i].response.status = 200
                 /\ served[i].response.error = Null
                 /\ served[i].response.body.document_id = served[i].created

(***************************************************************************)
(* C19: in the LangChain.js CLI --dewy-endpoint specifies how to connect   *)
(* to Dewy, defaulting to http://localhost:8000, and --collection selects  *)
(* the collection, defaulting to 'main': for both the load and the query   *)
(* command, the Dewy client is constructed with BASE equal to the value    *)
(* given for --dewy-endpoint (or the default when omitted) and the         *)
(* request uses the value given for --collection.                          *)
(***************************************************************************)
GivenOr(flag, default) ==
    IF flag \in DOMAIN program.given THEN program.given[flag] ELSE default

C19_EndpointAndCollectionOptionsAreUsed ==
    sent.op # "none" =>
        /\ dewy.BASE = GivenOr(FlagDewyEndpoint, "http://localhost:8000")
        /\ sent.collection = GivenOr(FlagCollection, "main")

(***************************************************************************)
(* C20: every entry of the redirect table maps an old path of a renamed    *)
(* section to the same page under the renamed section: 'to' equals 'from'  *)
(* with the space removed from the section directory name ('Getting        *)
(* Started' to 'GettingStarted', 'User Manual' to 'UserManual') and the    *)
(* page name after the last '/' unchanged.                                 *)
(***************************************************************************)
\* The characters of the section directory names.
SectionName ==
    [s \in {"Getting Started", "GettingStarted", "User Manual", "UserManual"} |->
        CASE s = "Getting Started" -> <<"G", "e", "t", "t", "i", "n", "g", " ", "S", "t", "a", "r", "t", "e", "d">>
          [] s = "GettingStarted" -> <<"G", "e", "t", "t", "i", "n", "g", "S", "t", "a", "r", "t", "e", "d">>
          [] s = "User Manual" -> <<"U", "s", "e", "r", " ", "M", "a", "n", "u", "a", "l">>
          [] s = "UserManual" -> <<"U", "s", "e", "r", "M", "a", "n", "u", "a", "l">>]

WithoutSpaces(name) == SelectSeq(name, LAMBDA c : c # " ")

\* The section directory and the page of a path docs/<section>/<page>.
Section(path) == path[Len(path) - 1]

PageName(path) == path[Len(path)]

IsRenaming(from, to) ==
    /\ Len(from) = 3 /\ Len(to) = 3
    /\ from[1] = to[1]
    /\ Section(from) \in {"Getting Started", "User Manual"}
    /\ Section(to) \in {"GettingStarted", "UserManual"}
    /\ SectionName[Section(to)] = WithoutSpaces(SectionName[Section(from)])
    /\ PageName(to) = PageName(from)

C20_RedirectsOnlyRemoveTheSpace ==
    phase = "built" =>
        /\ \A i \in DOMAIN RedirectTable :
              IsRenaming(RedirectTable[i].from, RedirectTable[i].to)
        /\ \A i \in DOMAIN RedirectTable :
              (start = Page(RedirectTable[i].from) /\ hops = 1)
                  => \E to \in {RedirectTable[j].to : j \in DOMAIN RedirectTable} :
                        /\ location = Page(to)
                        /\ IsRenaming(RedirectTable[i].from, to)

C20_Witness ==
    /\ phase = "built"
    /\ start = Page(<<"docs", "Getting Started", "clients">>)
    /\ hops = 1
    /\ location = Page(<<"docs", "GettingStarted", "clients">>)
    /\ WithoutSpaces(SectionName["User Manual"]) = SectionName["UserManual"]

(***************************************************************************)
(* C21: a failed step of the build job ends the job: no later step of the  *)
(* job is executed and the run's deploy job does not run; a deploy step is *)
(* executed only in a run whose own build job built and uploaded the       *)
(* artifact; the deployed site is that of a run whose upload succeeded,    *)
(* and a step in which a job fails leaves the deployed site as it was.     *)
(***************************************************************************)
BuildSteps == JobSteps("build")

C21_FailureEndsTheRun ==
    \A i \in DOMAIN runs :
        /\ \A k \in DOMAIN BuildSteps :
              runs[i].step[BuildSteps[k]] = "failure"
              => /\ runs[i].job["build"] = "failure"
                 /\ \A m \in (k + 1)..Len(BuildSteps) :
                       ~Executed(runs[i].step[BuildSteps[m]])
                 /\ ~Executed(runs[i].step[DeployStep])
                 /\ runs[i].job["deploy"] \in {"queued", "skipped", "cancelled"}
        /\ Executed(runs[i].step[DeployStep])
           => /\ runs[i].job["build"] = "success"
              /\ runs[i].step["Upload docs"] = "success"

C21_DeployedWasUploaded ==
    deployed # 0 =>
        \E i \in DOMAIN runs :
            /\ runs[i].sha = deployed
            /\ runs[i].job["build"] = "success"
            /\ runs[i].step["Upload docs"] = "success"
            /\ Executed(runs[i].step[DeployStep])

C21_FailureKeepsDeployed ==
    (\E i \in DOMAIN runs, j \in Jobs :
        runs[i].job[j] # "failure" /\ runs'[i].job[j] = "failure")
    => deployed' = deployed

\* C21: a failed build step ends the job and keeps the run from deploying;
\* what is deployed was built and uploaded by the run that deployed it, and
\* a failing run leaves the deployed site unchanged.
C21_FailedBuildNeverDeploys ==
    /\ []C21_FailureEndsTheRun
    /\ []C21_DeployedWasUploaded
    /\ [][C21_FailureKeepsDeployed]_vars

\* C21 witness: the first run deployed; in the second the site build failed,
\* so its upload and its deploy job were skipped and the first run's site
\* is still the deployed one.
C21_Witness ==
    /\ Len(runs) = 2
    /\ runs[1].step[DeployStep] = "success"
    /\ runs[2].step["Generate OpenAPI Docs"] = "success"
    /\ runs[2].step["Build website"] = "failure"
    /\ runs[2].step["Upload docs"] = "skipped"
    /\ runs[2].job["deploy"] = "skipped"
    /\ deployed = runs[1].sha

(***************************************************************************)
(* C22: runs are serialised per ref: of the runs of one ref at most one is *)
(* unfinished; a run that starts cancels the unfinished run of its group   *)
(* (workflow name, ref), in its build job or in its deploy job, and        *)
(* changes no run of another ref; a job is cancelled by nothing else.      *)
(***************************************************************************)
InProgress(run) == ~RunDone(run)

IsCancelled(run) == \E j \in Jobs : run.job[j] = "cancelled"

C22_OneRunInProgressPerRef ==
    \A i, k \in DOMAIN runs :
        (i # k /\ runs[i].ref = runs[k].ref)
            => ~(InProgress(runs[i]) /\ InProgress(runs[k]))

C22_StartCancelsOwnGroupOnly ==
    /\ Len(runs') > Len(runs)
       => \A i \in DOMAIN runs :
             IF runs[i].ref = runs'[Len(runs')].ref /\ InProgress(runs[i])
             THEN IsCancelled(runs'[i]) /\ RunDone(runs'[i])
             ELSE runs'[i] = runs[i]
    /\ \A i \in DOMAIN runs :
          (IsCancelled(runs'[i]) /\ ~IsCancelled(runs[i]))
              => /\ Len(runs') > Len(runs)
                 /\ runs'[Len(runs')].ref = runs[i].ref

\* C22: at most one run per ref is in progress; a starting run cancels the
\* run in progress of its own group and touches no run of another ref.
C22_RunsSerialisedPerRef ==
    /\ []C22_OneRunInProgressPerRef
    /\ [][C22_StartCancelsOwnGroupOnly]_vars

\* C22 witness: a second push to main arrived while the first run was in
\* its deploy job: the first run's deploy job is cancelled and the second
\* run is building.
C22_Witness ==
    /\ Len(runs) = 2
    /\ runs[1].ref = "refs/heads/main" /\ runs[2].ref = "refs/heads/main"
    /\ runs[1].job["build"] = "success"
    /\ runs[1].job["deploy"] = "cancelled"
    /\ runs[1].step[DeployStep] = "cancelled"
    /\ runs[2].job["build"] = "in_progress"

(***************************************************************************)
(* C23: the last push to main is the one deployed.                         *)
(***************************************************************************)
IsMainPush(run) == run.event = "push" /\ run.ref = "refs/heads/main"

\* A later run of the same ref exists: run n is not the last of its ref.
Superseded(n) ==
    \E m \in DOMAIN runs : m > n /\ runs[m].ref = runs[n].ref

\* Only the last run of a ref stays uncancelled for good: a cancelled run
\* has a successor in its group.
C23_LastRunIsNotCancelled ==
    \A n \in DOMAIN runs : IsCancelled(runs[n]) => Superseded(n)

\* Once a run has started, no run before it in its group changes the
\* deployed site: a step that starts no run changes it only to the build of
\* the last push to main.
C23_NoEarlierRunDeploys ==
    (Len(runs') = Len(runs) /\ deployed' # deployed)
        => \E n \in DOMAIN runs :
              /\ IsMainPush(runs[n]) /\ ~Superseded(n)
              /\ deployed' = runs[n].sha

LastOf(seq) == seq[Len(seq)]

IsPrefix(s, t) == Len(s) <= Len(t) /\ SubSeq(t, 1, Len(s)) = s

IsProductSearchMessage(m) ==
    m.role = "function" /\ m.name = "product_search" /\ m.content \in ProductsJson

\* The entries of the AI state come in groups: a user message, at most one
\* function message, one assistant message.
C24_EntriesInOrder ==
    /\ \A i \in DOMAIN aiState :
          LET m == aiState[i] IN
          /\ m.role \in {"user", "function", "assistant"}
          /\ m.role = "user"
             => (i = 1 \/ aiState[i - 1].role = "assistant")
          /\ m.role = "function"
             => (IsProductSearchMessage(m) /\ i > 1 /\ aiState[i - 1].role = "user")
          /\ m.role = "assistant"
             => (i > 1 /\ aiState[i - 1].role \in {"user", "function"})
    /\ chat = "idle" /\ aiState # <<>> => LastOf(aiState).role = "assistant"
    /\ chat = "render" => LastOf(aiState).role = "user"
    /\ chat = "stream"
       => /\ IsProductSearchMessage(LastOf(aiState))
          /\ LastOf(LastOf(completions).messages) = LastOf(aiState)

\* A step that changes the AI state appends one entry to it; the follow-up
\* completion is requested with the function message already in the state.
C24_OnlyAppends ==
    aiState' # aiState
        => /\ Len(aiState') = Len(aiState) + 1
           /\ IsPrefix(aiState, aiState')
           /\ (chat = "idle") = (LastOf(aiState').role = "user")
           /\ (chat' = "idle") = (LastOf(aiState').role = "assistant")
           /\ LastOf(aiState').role = "function"
              => /\ chat = "render" /\ chat' = "stream"
                 /\ Len(completions') = Len(completions) + 1
                 /\ LastOf(completions').aiState = aiState'

PositionsOf(n, kind) ==
    {p \in DOMAIN uiState : uiState[p].of = n /\ uiState[p].kind = kind}

\* The step is the rest of a submission's handler, after its await.
Resumed(n) ==
    /\ n \in DOMAIN submissions
    /\ submissions[n].status = "awaiting"
    /\ submissions'[n].status = "responded"

\* C25: every submission has put the user's message, showing the submitted
\* text, into the UI state from its start on, and the response of a
\* submission stands after that submission's user message.
C25_UserMessageBeforeResponse ==
    \A n \in DOMAIN submissions :
        /\ \E q \in PositionsOf(n, "user") :
              uiState[q] = UserMessage(n, submissions[n].userInput)
        /\ \A p \in PositionsOf(n, "response") :
              \E q \in PositionsOf(n, "user") : q < p

\* C25: the handler clears the input field only in the step that has added
\* the response, and the step that adds a response is the one that clears.
C25_ClearedAfterResponse ==
    /\ (inputValue # "" /\ inputValue' = "")
       => \E n \in DOMAIN submissions : Resumed(n)
    /\ \A n \in DOMAIN submissions :
          Resumed(n)
              => /\ inputValue' = ""
                 /\ LastOf(uiState') = ResponseMessage(n, submissions[n].userInput)

\* C25: each submission adds the user's message, then its response, and
\* clears the input field only after the response has been added.
C25_UserMessageThenResponseThenClear ==
    /\ []C25_UserMessageBeforeResponse
    /\ [][C25_ClearedAfterResponse]_vars

\* C25 witness: "shoes" was typed and submitted, the response came back and
\* the input field is empty again.
C25_Witness ==
    /\ Len(submissions) = 1
    /\ submissions[1].status = "responded"
    /\ uiState = <<InitialUIState[1], UserMessage(1, "shoes"),
                   ResponseMessage(1, "shoes")>>
    /\ inputValue = ""

\* C27: whatever the order in which overlapping submissions resume, the
\* UI state holds the greeting, the user message of every submission once,
\* the response of every submission that returned once, and nothing else.
C27_EachMessageOnce ==
    /\ uiState[1] = InitialUIState[1]
    /\ \A n \in DOMAIN submissions :
          /\ Cardinality(PositionsOf(n, "user")) = 1
          /\ Cardinality(PositionsOf(n, "response")) =
                IF submissions[n].status = "responded" THEN 1 ELSE 0
    /\ Len(uiState) = 1 + Len(submissions)
          + Cardinality({n \in DOMAIN submissions :
                            submissions[n].status = "responded"})

\* C27: no step drops or overwrites a message that is in the list.
C27_NothingDropped == IsPrefix(uiState, uiState')

\* C27: with overlapping submissions, in every interleaving, each user
\* message and each returned response is in the UI state exactly once and
\* no message in the list is dropped or overwritten.
C27_OverlappingSubmissionsKeepEveryMessage ==
    /\ []C27_EachMessageOnce
    /\ [][C27_NothingDropped]_vars

\* C27 witness: the second form was submitted while the first awaited its
\* response, and the second's response came back first.
C27_Witness ==
    /\ Len(submissions) = 2
    /\ submissions[2].messages = <<InitialUIState[1], UserMessage(1, "shoes")>>
    /\ uiState = <<InitialUIState[1], UserMessage(1, "shoes"),
                   UserMessage(2, "socks"), ResponseMessage(2, "socks"),
                   ResponseMessage(1, "shoes")>>

(***************************************************************************)
(* C26: the load and query commands let no failure propagate: when the     *)
(* Dewy or LLM call rejects, the error is caught, exactly one 'Failed to   *)
(* load file: ...' or 'Failed to query: ...' line is written, with the     *)
(* error's message, and the promise the command returned resolves; 'File   *)
(* loaded successfully' and the result are written only when addDocument   *)
(* resolved.                                                               *)
(***************************************************************************)
\* The lines written to stderr, in order.
FailureLines == SelectSeq(console, LAMBDA l : l.stream = "stderr")

IsSuccessLine(l) ==
    /\ l.stream = "stdout" /\ l.text.color = "green"
    /\ l.text.message = <<"File loaded successfully">>

IsResultLine(l, result) ==
    /\ l.stream = "stdout" /\ l.text.color = "none"
    /\ l.text.message = <<Stringify(result)>>

\* C26: a rejection is caught, one failure line is written and the promise
\* resolves; the success line and the result follow a resolved addDocument.
C26_FailuresAreCaught ==
    /\ promise.state # "rejected"
    /\ program.pc \in {"done", "failed"} => promise.state = "resolved"
    /\ reply.state = "rejected"
       => /\ promise.state = "resolved"
          /\ FailureLines =
                <<Stderr(Error(<<FailurePrefix(program.command), reply.value>>))>>
          /\ FailurePrefix(program.command) =
                IF sent.op = "addDocument" THEN "Failed to load file: "
                ELSE "Failed to query: "
    /\ reply.state # "rejected" => FailureLines = <<>>
    /\ \A i \in DOMAIN console :
          IsSuccessLine(console[i])
              => /\ sent.op = "addDocument" /\ reply.state = "resolved"
                 /\ i + 1 \in DOMAIN console
                 /\ IsResultLine(console[i + 1], reply.value)

\* C26 witness: the query command had written "Answer:" and a chunk of the
\* answer when the stream failed; it wrote the one failure line and its
\* promise resolved.
C26_Witness ==
    /\ program.command = "query" /\ program.pc = "failed"
    /\ reply = Rejected("Not Found")
    /\ Len(console) = 4
    /\ console[3] = Stdout(Plain(<<"RAG combines">>))
    /\ console[4] = Stderr(Error(<<"Failed to query: ", "Not Found">>))
    /\ promise.state = "resolved"

====
